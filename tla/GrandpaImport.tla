---------------------------- MODULE GrandpaImport ----------------------------
(***************************************************************************)
(* The finality side of one client: the import of blocks and of            *)
(* justifications by the import queue (client/consensus/grandpa/src/       *)
(* import.rs), finalization by the voter (environment.rs, lib.rs), the     *)
(* lock on the authority set both share, and its copy on disk              *)
(* (aux_schema.rs).  The process may stop between any two steps.           *)
(*                                                                         *)
(* The rest of the network is an environment: it authors blocks, whose     *)
(* runtimes follow GrandpaPallet, and it finalizes them.  Its voters are   *)
(* honest: they finalize one chain and never past a block that changes the *)
(* set (the NOTE of finalize_block).  A stall is noted with the highest    *)
(* finalized block of the voters, which then finalize nothing until the    *)
(* forced change (note_stalled); the block that signals a forced change is *)
(* not re-orged.                                                           *)
(***************************************************************************)
EXTENDS GrandpaPallet

CONSTANTS
    Calls,       \* bound: what the runtime may be asked to do in each block
    MaxFaults,   \* bound: failed imports and restarts
    ImportPeriod,\* justification_import_period
    Bootstraps,  \* how the client starts: "full", or "state" (warp sync)
    StateAtChange\* the imported state may be that of a block that changes the set

ASSUME GrandpaAssumption ==
    /\ MaxFaults \in Nat /\ ImportPeriod \in Nat \ {0}
    /\ Bootstraps \subseteq {"full", "state"} /\ StateAtChange \in BOOLEAN
    /\ Calls \in [Blocks -> SUBSET [name : STRING, delay : Nat, median : Nat]]

VARIABLES
    runtime,    \* state of the pallet after each block that exists
    digest,     \* log of each block
    net,        \* the voters: their set, finalized block and history
    justs,      \* justifications that exist
    bootstrap,  \* "off" until the client starts, "state" until a state is imported, "read"
                \* until the set is read from it, "gap" from then on, "full" without one
    imported,   \* blocks in the client's database
    finalized,  \* best finalized block of the client
    auth,       \* the authority set in memory
    disk,       \* the authority set and the voter state in the database
    op,         \* what the import queue is working on
    requests,   \* blocks whose justification is asked for
    voter,      \* the set of the running voter, and whether it is paused
    commands,   \* VoterCommands on their way to the voter
    faults,     \* failures so far
    strayed,    \* the client started with a best block on a fork the network left behind
    panicked    \* an assertion of import_justification failed

netVars == <<runtime, digest, net, justs>>
vars == <<runtime, digest, net, justs, bootstrap, imported, finalized, auth, disk, op,
          requests, voter, commands, faults, strayed, panicked>>

Authored == DOMAIN runtime

NoJust == [block |-> Genesis, id |-> 0, authorities |-> Genesis]

Idle == [stage |-> "idle", block |-> Genesis, old |-> genesis, changed |-> FALSE,
         applied |-> "none", pause |-> FALSE, just |-> NoJust]

\* The set is locked from the moment an import changed it until the block is in the database.
Locked == op.stage = "import" /\ op.changed

VoterOf(a) == [id |-> a.set_id, authorities |-> a.authorities, paused |-> FALSE]

Init ==
    /\ runtime = [h \in {Genesis} |-> GenesisRuntime]
    /\ digest = [b \in Blocks |-> NoDigest]
    /\ net = [sets |-> <<Genesis>>, hist |-> << >>, fin |-> Genesis, from |-> 0,
              anchor |-> Genesis, offline |-> FALSE]
    /\ justs = {}
    /\ bootstrap = "off"
    /\ imported = {Genesis} /\ finalized = Genesis
    /\ auth = genesis
    /\ disk = [auth |-> genesis, paused |-> FALSE]
    /\ op = Idle
    /\ requests = {}
    /\ voter = VoterOf(genesis)
    /\ commands = << >>
    /\ faults = 0
    /\ strayed = FALSE /\ panicked = FALSE

-----------------------------------------------------------------------------
\* The network: authors and voters.

NetId == Len(net.sets) - 1

\* The forced change that takes effect at b, known from the runtime b was built on.
ForcedAt(r, b) == r.pending.kind = "forced" /\ r.pending.scheduled_at + r.pending.delay = Number[b]

Author(b, call) ==
    LET before == runtime[Parent[b]]
        after == Execute(before, b, call)
        force == ForcedAt(after, b)
    IN /\ bootstrap = "off"
       /\ b \notin Authored /\ Parent[b] \in Authored
       /\ call.name = "note_stalled" => /\ call.median = Number[net.fin]
                                        /\ EqualOrDescendent(net.fin, b)
       /\ force => Comparable(net.anchor, b) /\ EqualOrDescendent(net.fin, b)
       /\ runtime' = [h \in Authored \cup {b} |->
                        IF h = b THEN on_finalize(after, b) ELSE runtime[h]]
       /\ digest' = [digest EXCEPT ![b] = deposit_log(after, b)]
       /\ net' = IF force
                 THEN [net EXCEPT !.sets = Append(@, after.pending.next),
                                  !.hist = Append(@, <<NetId, after.pending.median>>),
                                  !.from = Number[b], !.anchor = b, !.offline = FALSE]
                 ELSE [net EXCEPT !.offline = @ \/ call.name = "note_stalled"]
       /\ UNCHANGED <<justs, bootstrap, imported, finalized, auth, disk, op, requests, voter,
                      commands, faults, strayed, panicked>>

\* The standard changes that the set of the network has still to enact on the chain of b.
Upcoming(b) == {s \in (Ancestors[b] \cup {b}) \cap Blocks :
                   digest[s].kind = "standard" /\ Number[s] > net.from}

NetFinalize(b) ==
    LET next == Highest(Upcoming(b))
        enacts == Upcoming(b) # {} /\ effective_number(digest, next) = Number[b]
    IN /\ bootstrap = "off" /\ ~net.offline
       /\ b \in Authored /\ is_descendent_of(net.fin, b) /\ Comparable(net.anchor, b)
       /\ Upcoming(b) # {} => Number[b] <= effective_number(digest, next)
       /\ justs' = justs \cup {[block |-> b, id |-> NetId, authorities |-> net.sets[Len(net.sets)]]}
       /\ net' = IF enacts
                 THEN [net EXCEPT !.fin = b, !.from = Number[b], !.sets = Append(@, next),
                                  !.hist = Append(@, <<NetId, Number[b]>>)]
                 ELSE [net EXCEPT !.fin = b]
       /\ UNCHANGED <<runtime, digest, bootstrap, imported, finalized, auth, disk, op,
                      requests, voter, commands, faults, strayed, panicked>>

-----------------------------------------------------------------------------
\* make_authorities_changes: what importing b does to the authority set.

Signals(b) == digest[b].kind # "none"

Added(b) == IF Signals(b) THEN add_pending_change(auth, digest, b) ELSE auth

\* Mutant: a forced change does not wait for the standard changes it depends on.
CanMakeChangesEager(b) ==
    /\ Signals(b) => CanAdd(auth, digest, b)
    /\ Forcing(Added(b), digest, b) = {} => enacts_standard_change(Added(b), digest, b) # "error"

CanMakeChanges(b) ==
    /\ Signals(b) => CanAdd(auth, digest, b)
    /\ IF Forcing(Added(b), digest, b) # {}
       THEN ~DependencyUnsatisfied(Added(b), digest, Forced(Added(b), digest, b))
       ELSE enacts_standard_change(Added(b), digest, b) # "error"

AppliedChanges(b) ==
    IF Forcing(Added(b), digest, b) # {} THEN "forced"
    ELSE enacts_standard_change(Added(b), digest, b)

MadeChanges(b) ==
    IF AppliedChanges(b) = "forced" THEN apply_forced_changes(Added(b), digest, b) ELSE Added(b)

\* The justifications that may come with block b.
Carried(b) == {j \in justs : j.block = b} \cup {NoJust}

\* The first part of import_block, up to the call of the inner block import.
ImportBlock(b, j) ==
    /\ op = Idle
    /\ b \in Authored \ imported /\ Parent[b] \in imported
    /\ bootstrap \in {"full", "gap"}
    /\ Number[b] > Number[finalized]
    /\ CanMakeChanges(b)
    /\ auth' = MadeChanges(b)
    /\ op' = [stage |-> "import", block |-> b, old |-> auth,
              changed |-> Signals(b) \/ AppliedChanges(b) = "forced",
              applied |-> AppliedChanges(b), pause |-> digest[b].kind = "forced", just |-> j]
    /\ UNCHANGED <<netVars, bootstrap, imported, finalized, disk, requests, voter, commands,
                   faults, strayed, panicked>>

ChangeAuthorities(a) == <<[VoterOf(a) EXCEPT !.paused = FALSE]>>

PauseCommand == <<[id |-> 0, authorities |-> Genesis, paused |-> TRUE]>>

\* What the database holds of a set that was written with, or without, a handoff.
Written(a, handoff) == [auth |-> a, paused |-> disk.paused /\ ~handoff]

NeedsJustification(o) == o.applied \in {"root", "inner"}

should_process_justification(o) ==
    \/ NeedsJustification(o)
    \/ finalized = Genesis
    \/ Number[finalized] \div ImportPeriod # Number[o.block] \div ImportPeriod

\* The rest of import_block once the inner import returned: release the lock, tell the
\* voter, and either go on to the justification or ask for one.
BlockImported ==
    LET b == op.block
        useful == /\ op.just # NoJust /\ op.applied # "inner"
                  /\ should_process_justification(op)
        missing == NeedsJustification(op) /\ ~useful
    IN /\ op.stage = "import" /\ op.applied # "old"
       /\ Number[b] > Number[finalized]
       /\ imported' = imported \cup {b}
       /\ disk' = IF op.changed THEN Written(auth, op.applied = "forced") ELSE disk
       /\ commands' = commands \o (IF op.pause THEN PauseCommand ELSE << >>)
                               \o (IF op.applied = "forced" THEN ChangeAuthorities(auth) ELSE << >>)
       /\ requests' = (IF op.applied = "forced" THEN {} ELSE requests)
                        \cup (IF missing THEN {b} ELSE {})
       /\ op' = IF useful THEN [op EXCEPT !.stage = "verify", !.old = genesis, !.changed = FALSE]
                ELSE Idle
       /\ UNCHANGED <<netVars, bootstrap, finalized, auth, voter, faults, strayed, panicked>>

\* PendingSetChanges dropped before it was defused.
Reverted == /\ auth' = IF op.changed THEN op.old ELSE auth
            /\ op' = Idle

\* The inner import failed ...
ImportFailed ==
    /\ op.stage = "import"
    /\ faults < MaxFaults /\ faults' = faults + 1
    /\ Reverted
    /\ UNCHANGED <<netVars, bootstrap, imported, finalized, disk, requests, voter, commands,
                   strayed, panicked>>

\* ... or refused a block that finality has passed in the meantime.
ImportRefused ==
    /\ op.stage = "import" /\ op.applied # "old"
    /\ Number[op.block] <= Number[finalized]
    /\ Reverted
    /\ UNCHANGED <<netVars, bootstrap, imported, finalized, disk, requests, voter, commands,
                   faults, strayed, panicked>>

-----------------------------------------------------------------------------
\* finalize_block, under the lock of the authority set.

Refinalized(b) == Number[b] <= Number[finalized] /\ EqualOrDescendent(b, finalized)

AfterFinality(b) == apply_standard_changes(auth, digest, b)

CanFinalizeBlock(b) ==
    CanApplyStandard(auth, digest, b) /\ is_descendent_of(finalized, b)

NewSet(b) == AfterFinality(b).set_id # auth.set_id

\* Mutant: only a new set is written.
FinalizeBlockUnsaved(b) ==
    /\ finalized' = b
    /\ auth' = AfterFinality(b)
    /\ disk' = IF NewSet(b) THEN Written(AfterFinality(b), TRUE) ELSE disk

FinalizeBlock(b) ==
    /\ finalized' = b
    /\ auth' = AfterFinality(b)
    /\ disk' = IF StandardChanged(auth, AfterFinality(b))
               THEN Written(AfterFinality(b), NewSet(b)) ELSE disk

\* The import queue takes up a justification that sync asked for.
ImportJustification(b, j) ==
    /\ op = Idle
    /\ b \in requests /\ j \in Carried(b) \ {NoJust}
    /\ op' = [Idle EXCEPT !.stage = "verify", !.block = b, !.just = j]
    /\ UNCHANGED <<netVars, bootstrap, imported, finalized, auth, disk, requests, voter,
                   commands, faults, strayed, panicked>>

Verifies(j) == j.id = auth.set_id /\ j.authorities = auth.authorities

\* decode_and_verify_finalizes against the set as it is now.  It is read twice, once for
\* the id and once for the authorities; a change in between only makes it fail.
VerifyJustification ==
    /\ op.stage = "verify" /\ Verifies(op.just)
    /\ op' = [op EXCEPT !.stage = "finalize"]
    /\ UNCHANGED <<netVars, bootstrap, imported, finalized, auth, disk, requests, voter,
                   commands, faults, strayed, panicked>>

\* A failed justification is asked for again when the block needs one.
JustificationFailed ==
    /\ \/ op.stage = "verify" /\ ~Verifies(op.just)
       \/ op.stage = "finalize" /\ ~Refinalized(op.block) /\ ~CanFinalizeBlock(op.block)
    /\ requests' = IF NeedsJustification(op) THEN requests \cup {op.block} ELSE requests
    /\ op' = Idle
    /\ UNCHANGED <<netVars, bootstrap, imported, finalized, auth, disk, voter, commands, faults,
                   strayed, panicked>>

\* assert!(!enacts_change) after finalize_block returned Ok, that is, without a new set.
AssertionHolds(newSet) == NeedsJustification(op) => newSet

FinalizeJustified ==
    LET b == op.block IN
    /\ op.stage = "finalize"
    /\ ~Refinalized(b) /\ CanFinalizeBlock(b)
    /\ FinalizeBlock(b)
    /\ commands' = IF NewSet(b) THEN commands \o ChangeAuthorities(auth') ELSE commands
    /\ requests' = requests \ {b}
    /\ panicked' = (panicked \/ ~AssertionHolds(NewSet(b)))
    /\ op' = Idle
    /\ UNCHANGED <<netVars, bootstrap, imported, voter, faults, strayed>>

\* finalize_block returns Ok: the block is final already.
RefinalizeJustified ==
    /\ op.stage = "finalize"
    /\ Refinalized(op.block) /\ AssertionHolds(FALSE)
    /\ requests' = requests \ {op.block}
    /\ op' = Idle
    /\ UNCHANGED <<netVars, bootstrap, imported, finalized, auth, disk, voter, commands, faults,
                   strayed, panicked>>

-----------------------------------------------------------------------------
\* The voter.

VoterFinalize(j) ==
    LET b == j.block IN
    /\ ~Locked
    /\ ~voter.paused /\ j.id = voter.id /\ j.authorities = voter.authorities
    /\ b \in imported
    /\ ~Refinalized(b) /\ CanFinalizeBlock(b)
    /\ FinalizeBlock(b)
    /\ voter' = IF NewSet(b) THEN VoterOf(auth') ELSE voter
    /\ requests' = requests \ {b}
    /\ UNCHANGED <<netVars, bootstrap, imported, op, commands, faults, strayed, panicked>>

\* Mutant: a voter that resumes keeps its set.
HandleResumes ==
    /\ commands # << >>
    /\ commands' = Tail(commands)
    /\ voter' = [voter EXCEPT !.paused = Head(commands).paused]
    /\ disk' = [disk EXCEPT !.paused = Head(commands).paused]
    /\ UNCHANGED <<netVars, bootstrap, imported, finalized, auth, op, requests, faults, strayed, panicked>>

handle_voter_command ==
    /\ commands # << >>
    /\ commands' = Tail(commands)
    /\ voter' = IF Head(commands).paused THEN [voter EXCEPT !.paused = TRUE] ELSE Head(commands)
    /\ disk' = [disk EXCEPT !.paused = Head(commands).paused]
    /\ UNCHANGED <<netVars, bootstrap, imported, finalized, auth, op, requests, faults, strayed, panicked>>

-----------------------------------------------------------------------------
\* Stopping and starting.

\* The tips of the forks above the finalized block; one of them is the best block.
Tips == {b \in imported : /\ EqualOrDescendent(finalized, b)
                          /\ \A c \in imported \cap Blocks : Parent[c] # b}

\* Mutant: nothing is asked for.
OnStartForgets(a, best) == {}

\* The justifications on_start asks for: those of the blocks where a pending change takes
\* effect, on the best chain when that is not the block that signals it.
on_start(a, best) ==
    {b \in imported :
        \E s \in a.standard.nodes :
            /\ effective_number(digest, s) = Number[b]
            /\ Number[finalized] < Number[b] /\ Number[b] <= Number[best]
            /\ IF digest[s].delay = 0 THEN b = s
               ELSE EqualOrDescendent(s, b) /\ EqualOrDescendent(b, best)}

Started(best) ==
    /\ auth' = disk.auth
    /\ op' = Idle
    /\ commands' = << >>
    /\ requests' = on_start(disk.auth, best)
    /\ strayed' = (strayed \/ ~Comparable(best, net.fin))
    /\ voter' = [VoterOf(disk.auth) EXCEPT !.paused = disk.paused]

\* The process stops.  Not between the two writes of a state import: see ReadState.
Restart ==
    /\ faults < MaxFaults /\ bootstrap \notin {"off", "read"}
    /\ faults' = faults + 1
    /\ \E best \in Tips : Started(best)
    /\ UNCHANGED <<netVars, bootstrap, imported, finalized, disk, panicked>>

\* The assertion fails: the import queue is an essential task, the node goes down.
AssertionFails ==
    /\ op.stage = "finalize"
    /\ Refinalized(op.block) /\ ~AssertionHolds(FALSE)
    /\ panicked' = TRUE
    /\ \E best \in Tips : Started(best)
    /\ UNCHANGED <<netVars, bootstrap, imported, finalized, disk, faults>>

-----------------------------------------------------------------------------
\* Warp sync: a state is imported, the blocks below it follow in ascending order.

\* The sets changed only through sessions.
SessionsOnly(b) == /\ net.anchor = Genesis
                   /\ \A s \in (Ancestors[b] \cup {b}) \cap Blocks :
                         digest[s].kind # "forced" /\ digest[s].delay = 0

\* import_state, the import of a block that is final together with its state ...
ImportState(b) ==
    /\ bootstrap = "state" /\ op = Idle
    /\ b \in Blocks /\ EqualOrDescendent(b, net.fin) /\ SessionsOnly(b)
    /\ Signals(b) => StateAtChange
    /\ imported' = {Genesis, b} /\ finalized' = b
    /\ bootstrap' = "read"
    /\ UNCHANGED <<netVars, auth, disk, op, requests, voter, commands, faults, strayed, panicked>>

\* ... and the set that is read from the state and written in a transaction of its own.
ReadState ==
    LET r == runtime[finalized]
        read == [genesis EXCEPT !.authorities = r.authorities, !.set_id = r.set_id]
    IN /\ bootstrap = "read"
       /\ auth' = read
       /\ disk' = [disk EXCEPT !.auth = read]
       /\ commands' = commands \o ChangeAuthorities(read)
       /\ bootstrap' = "gap"
       /\ UNCHANGED <<netVars, imported, finalized, op, requests, voter, faults, strayed, panicked>>

Gap == (Ancestors[finalized] \cap Blocks) \ imported

\* An old block: its change joins the history when a justification proves it.
ImportOldBlock(b, j) ==
    /\ bootstrap = "gap" /\ op = Idle
    /\ b \in Gap /\ Parent[b] \in imported
    /\ Signals(b) => j # NoJust /\ CanInsert(auth.changes, Number[b])
    /\ auth' = IF Signals(b) THEN [auth EXCEPT !.changes = insert(@, Number[b])] ELSE auth
    /\ op' = [Idle EXCEPT !.stage = "import", !.block = b, !.old = auth, !.changed = Signals(b),
                          !.applied = "old"]
    /\ UNCHANGED <<netVars, bootstrap, imported, finalized, disk, requests, voter, commands,
                   faults, strayed, panicked>>

OldBlockImported ==
    /\ op.stage = "import" /\ op.applied = "old"
    /\ imported' = imported \cup {op.block}
    /\ disk' = IF op.changed THEN Written(auth, FALSE) ELSE disk
    /\ op' = Idle
    /\ UNCHANGED <<netVars, bootstrap, finalized, auth, requests, voter, commands, faults, strayed, panicked>>

-----------------------------------------------------------------------------

\* The client never waits for a block or a justification to be missing, and the network
\* never looks at the client: it is enough to start the client once all blocks exist.
Launch ==
    /\ Authored = Hashes
    /\ bootstrap = "off" /\ bootstrap' \in Bootstraps
    /\ UNCHANGED <<netVars, imported, finalized, auth, disk, op, requests, voter, commands,
                   faults, strayed, panicked>>

Begin(b) == \E j \in Carried(b) : ImportBlock(b, j)

BeginOld(b) == \E j \in Carried(b) : ImportOldBlock(b, j)

Take(b) == \E j \in Carried(b) : ImportJustification(b, j)

\* What the import queue does of its own once it has begun.
Proceed ==
    \/ BlockImported
    \/ ImportRefused
    \/ OldBlockImported
    \/ VerifyJustification
    \/ JustificationFailed
    \/ FinalizeJustified
    \/ RefinalizeJustified
    \/ AssertionFails
    \/ ReadState

Next ==
    \/ Launch
    \/ \E b \in Blocks : \E call \in Calls[b] : Author(b, call)
    \/ \E b \in Blocks : NetFinalize(b)
    \/ \E b \in Blocks : Begin(b) \/ BeginOld(b) \/ Take(b) \/ ImportState(b)
    \/ Proceed
    \/ ImportFailed
    \/ \E j \in justs : VoterFinalize(j)
    \/ handle_voter_command
    \/ Restart

\* The import queue works through what it is given; blocks, and the justifications sync asks
\* for, are given to it until they are imported; the voter reads its channel; a node that
\* went down is started again.
Fairness ==
    /\ WF_vars(Proceed)
    /\ WF_vars(handle_voter_command)
    /\ SF_vars(\E b \in Blocks : Begin(b) \/ BeginOld(b) \/ ImportState(b))
    /\ \A b \in Blocks : SF_vars(Take(b))

Spec == Init /\ [][Next]_vars /\ Fairness

-----------------------------------------------------------------------------
AuthorityType ==
    [authorities : Hashes, set_id : Nat, forced : Seq(Blocks), changes : Seq(Nat \X Nat),
     standard : [nodes : SUBSET Blocks, best : Nat \cup {-1}]]

\* The type of the client's state.
GrandpaTypeOK ==
    /\ auth \in AuthorityType /\ disk.auth \in AuthorityType /\ op.old \in AuthorityType
    /\ imported \subseteq Authored /\ finalized \in imported
    /\ requests \subseteq imported
    /\ op.stage \in {"idle", "import", "verify", "finalize"}
    /\ voter.id \in Nat /\ voter.authorities \in Hashes /\ voter.paused \in BOOLEAN
    /\ faults \in 0..MaxFaults

\* The set of the client is one the voters of the network had, under the same id, and the
\* blocks it records as the last of earlier sets are the last of those sets: no change is
\* skipped, applied twice or applied in another order, whichever way it was learnt.
FollowsNetwork ==
    /\ auth.set_id < Len(net.sets)
    /\ net.sets[auth.set_id + 1] = auth.authorities
    /\ \A c \in Range(auth.changes) : c = net.hist[c[1] + 1]
    /\ \A i \in 2..Len(auth.changes) : auth.changes[i][1] > auth.changes[i - 1][1]

\* While no import holds the lock, the authority set on disk is the one in memory, but for
\* the number that a finalization without any change does not write.
DiskInStep ==
    /\ GrandpaTypeOK
    /\ ~Locked => [disk.auth EXCEPT !.standard.best = auth.standard.best] = auth

\* Block t is where a forced change of its chain took effect.
ForcedEnacted(t) == \E s \in Blocks : /\ digest[s].kind = "forced" /\ EqualOrDescendent(s, t)
                                      /\ effective_number(digest, s) = Number[t]

\* A block and the change it signals are written together, and restored together when the
\* import fails: every standard change that an imported block signals and that finality has
\* still to enact is pending on disk, unless a forced change discarded it.
NoChangeForgotten ==
    \A b \in imported \cap Blocks :
        /\ digest[b].kind = "standard"
        /\ Comparable(finalized, b) /\ effective_number(digest, b) > Number[finalized]
        /\ \A t \in imported \cap Blocks : ForcedEnacted(t) => is_descendent_of(t, b)
        => b \in disk.auth.standard.nodes

\* The history of sets names, for every final block, the set that justified it.
HistoryNamesSigner ==
    \A j \in justs :
        EqualOrDescendent(j.block, finalized) /\ Gap = {} =>
            get_set_id(auth.changes, Number[j.block]) \in
                {j.id} \cup (IF j.id = auth.set_id THEN {Latest} ELSE {})
                       \cup (IF auth.changes = << >> THEN {Unknown} ELSE {})

\* A voter that has read its commands votes in the set of the client, whether it changed the
\* set itself or the import queue did.  (Said of a client that imported all blocks: the
\* command of a state import may reach the voter after it moved on to a later set.)
VoterInStep ==
    commands = << >> /\ ~Locked /\ bootstrap = "full" =>
        voter.id = auth.set_id /\ voter.authorities = auth.authorities

\* The client reaches the last set of the network, however blocks, justifications, failed
\* imports and restarts were interleaved.  (Unless it started with its best block on a fork
\* that the network left behind: on_start asks for justifications on the best chain only.)
CatchesUp == <>[](bootstrap \in {"off", "state"} \/ strayed \/ auth.set_id = NetId)

\* import_justification never meets its own assertion.
AssertionNeverFires == ~panicked
=============================================================================
