---------------------------- MODULE EventHistory ----------------------------
(***************************************************************************)
(* What the daemon promises of one thread's history, whatever happens to    *)
(* its processes and its disk: events are numbered upwards, never again at   *)
(* or below a number whose acknowledgement was recorded, subscribers are      *)
(* shown the newest event, and what a crash takes is the end of the history   *)
(* without anything a subscriber was shown that ends or blocks a turn.        *)
(* DiskJournal implements it: see DiskJournal!ImplementsHistory.             *)
(***************************************************************************)
EXTENDS Journal

VARIABLES
    known,   \* the history: every event not lost
    shown,   \* every event a subscriber was given
    acked    \* the recorded acknowledgement

Init == known = {} /\ shown = {} /\ acked = 0

Happens ==
    /\ \E e \in known' \ known :
          /\ known' = known \cup {e}
          /\ acked < e.seq
          /\ \A f \in known : f.seq < e.seq
    /\ UNCHANGED <<shown, acked>>

Shows ==
    /\ \E e \in known : /\ \A f \in known : f.seq <= e.seq
                        /\ shown' = shown \cup {e}
    /\ UNCHANGED <<known, acked>>

Acknowledges ==
    /\ acked' > acked
    /\ UNCHANGED <<known, shown>>

Loses ==
    /\ known' \subseteq known
    /\ \A e \in known \ known' :
          /\ \A f \in known' : f.seq < e.seq
          /\ e \in shown => ~IsBoundary(e)
    /\ UNCHANGED <<shown, acked>>

Next == Happens \/ Shows \/ Acknowledges \/ Loses

Spec == Init /\ [][Next]_<<known, shown, acked>>
=============================================================================
