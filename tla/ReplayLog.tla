----------------------------- MODULE ReplayLog ------------------------------
(***************************************************************************)
(* What a turn promises those who watch it: a log that only grows while it *)
(* is open, and readers that receive it entry by entry.  A reader is told  *)
(* that the log is complete only when it is closed and the reader has all  *)
(* of it.  A reader may stop receiving for any length of time.             *)
(***************************************************************************)
EXTENDS Naturals, Sequences

CONSTANTS Readers, Entry

VARIABLES log, open, read, told

Init ==
  /\ log = << >>
  /\ open = TRUE
  /\ read = [r \in Readers |-> << >>]
  /\ told = [r \in Readers |-> FALSE]

\* Entries are appended, and the last of them may close the log.
Write ==
  /\ open
  /\ \E out \in {<< >>} \cup {<<e>> : e \in Entry} : log' = log \o out
  /\ open' \in BOOLEAN
  /\ UNCHANGED <<read, told>>

\* A reader receives the next entry, or learns that there is none left.
Receive(r) ==
  /\ ~told[r]
  /\ \/ UNCHANGED read
     \/ /\ Len(read[r]) < Len(log)
        /\ read' = [read EXCEPT ![r] = Append(@, log[Len(@) + 1])]
  /\ \E complete \in BOOLEAN :
       /\ told' = [told EXCEPT ![r] = complete]
       /\ complete => ~open /\ read'[r] = log
  /\ UNCHANGED <<log, open>>

Next == Write \/ \E r \in Readers : Receive(r)

Spec == Init /\ [][Next]_<<log, open, read, told>>
=============================================================================
