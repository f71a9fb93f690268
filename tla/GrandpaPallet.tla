---------------------------- MODULE GrandpaPallet ----------------------------
(***************************************************************************)
(* The GRANDPA pallet (frame/grandpa/src/lib.rs): what the runtime of a    *)
(* chain knows of authority set changes, block by block.  The state after  *)
(* a block is a value of its own, because forks have different ones:       *)
(*   pending      PendingChange, or NoPending                              *)
(*   next_forced  NextForced (0 when absent)                               *)
(*   stalled      Stalled: <<further_wait, median>>, or << >>              *)
(*   set_id       CurrentSetId                                             *)
(*   authorities  Authorities, named by the block that announced them      *)
(* SetIdSession and the pausing of GRANDPA are left out: no client reads   *)
(* them when it imports blocks.                                            *)
(***************************************************************************)
EXTENDS AuthoritySet

NoPending == [scheduled_at |-> -1, delay |-> 0, kind |-> "none", median |-> 0, next |-> Genesis]

GenesisRuntime == [pending |-> NoPending, next_forced |-> 0, stalled |-> << >>,
                   set_id |-> 0, authorities |-> Genesis]

NoDigest == [kind |-> "none", delay |-> 0, median |-> 0]

\* ChangePending and TooSoon are the two ways schedule_change refuses.
CanSchedule(r, b, kind) ==
    /\ r.pending = NoPending
    /\ kind = "forced" => r.next_forced <= Number[b]

schedule_change(r, b, delay, kind, median) ==
    [r EXCEPT !.next_forced = IF kind = "forced" THEN Number[b] + 2 * delay ELSE @,
              !.pending = [scheduled_at |-> Number[b], delay |-> delay, kind |-> kind,
                           median |-> median, next |-> b]]

\* A session that changes the validators, or any session after note_stalled.
on_new_session(r, b) ==
    LET kind == IF r.stalled = << >> THEN "standard" ELSE "forced"
        delay == IF r.stalled = << >> THEN 0 ELSE r.stalled[1]
        median == IF r.stalled = << >> THEN 0 ELSE r.stalled[2]
        scheduled == schedule_change(r, b, delay, kind, median)
    IN IF CanSchedule(r, b, kind)
       THEN [scheduled EXCEPT !.stalled = << >>, !.set_id = @ + 1]
       ELSE r

\* What the runtime does in block b: nothing, a session, another pallet that
\* schedules a change with a delay, or note_stalled.
Execute(r, b, call) ==
    CASE call.name = "session" -> on_new_session(r, b)
      [] call.name = "schedule" -> IF CanSchedule(r, b, "standard")
                                   THEN schedule_change(r, b, call.delay, "standard", 0) ELSE r
      [] call.name = "note_stalled" -> [r EXCEPT !.stalled = <<call.delay, call.median>>]
      [] OTHER -> r

\* The log that on_finalize deposits at the end of the block.
deposit_log(r, b) ==
    IF r.pending.scheduled_at = Number[b]
    THEN [kind |-> r.pending.kind, delay |-> r.pending.delay, median |-> r.pending.median]
    ELSE NoDigest

on_finalize(r, b) ==
    IF r.pending # NoPending /\ Number[b] = r.pending.scheduled_at + r.pending.delay
    THEN [r EXCEPT !.authorities = r.pending.next, !.pending = NoPending]
    ELSE r
=============================================================================
