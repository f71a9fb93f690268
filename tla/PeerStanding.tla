---------------------------- MODULE PeerStanding ----------------------------
(***************************************************************************)
(* What a protocol controller can see of the peer store                    *)
(* (client/network/src/peer_store.rs): whether a peer is known, and        *)
(* whether its reputation is below the ban threshold.  The reputation      *)
(* values themselves, which decide when a peer passes from one standing to *)
(* another, are abstracted from: it may do so at any time.                 *)
(***************************************************************************)
CONSTANT Peers

VARIABLE standing   \* [Peers -> Standings], the map `PeerStoreInner::peers`

Standings == {"unknown", "good", "banned"}

StandingTypeOK == standing \in [Peers -> Standings]

StandingInit == standing \in [Peers -> {"unknown", "good"}]

(* An unknown peer is not banned: `map_or(false, ..)`. *)
IsBanned(p) == standing[p] = "banned"

(* Faulty: does not filter out the banned peers. *)
EligibleEvenBanned(ignored) == {p \in Peers \ ignored : standing[p] # "unknown"}

(* The peers `outgoing_candidates` may return. *)
Eligible(ignored) == {p \in Peers \ ignored : standing[p] = "good"}

(* A new entry starts with reputation zero; a known one is only touched. *)
AddKnownPeer(p) ==
  standing' = [standing EXCEPT ![p] = IF @ = "unknown" THEN "good" ELSE @]

(* A negative change may take a known peer below the ban threshold. *)
ReportDisconnect(p) ==
  \E s \in (CASE standing[p] = "unknown" -> {"good"}
              [] standing[p] = "good"    -> {"good", "banned"}
              [] standing[p] = "banned"  -> {"banned"}) :
    standing' = [standing EXCEPT ![p] = s]

(* An arbitrary change of reputation; the entry is created if missing. *)
ReportPeer(p) ==
  \E s \in {"good", "banned"} : standing' = [standing EXCEPT ![p] = s]

(* One tick: reputations decay towards zero, expired entries are forgotten. *)
ProgressTime ==
  standing' \in {f \in [Peers -> Standings] : \A p \in Peers :
                   \/ f[p] = standing[p]
                   \/ standing[p] = "banned" /\ f[p] \in {"good", "unknown"}
                   \/ standing[p] = "good" /\ f[p] = "unknown"}

StandingNext ==
  \/ \E p \in Peers : AddKnownPeer(p) \/ ReportDisconnect(p) \/ ReportPeer(p)
  \/ ProgressTime

StandingSpec == StandingInit /\ [][StandingNext]_standing
=============================================================================
