---------------------------- MODULE SnapshotStack ----------------------------
(***************************************************************************)
(* What nested savepoints promise to one writer: a stack of snapshots of   *)
(* the database.  Nothing that the transaction changes afterwards touches  *)
(* a snapshot that was taken, going back restores it exactly, and a        *)
(* transaction that is abandoned, by a rollback, an error or a crash,      *)
(* leaves what was committed last.                                         *)
(***************************************************************************)
EXTENDS Naturals, Sequences

CONSTANT Contents    \* what a page can hold

VARIABLES image,     \* the database as the writer sees it: page number -> content
          snapshots, \* the images at the open savepoints, outermost first
          committed, \* the image that a crash would leave
          open       \* a write transaction is open

vars == <<image, snapshots, committed, open>>

Init == /\ image \in Seq(Contents)
        /\ snapshots = <<>>
        /\ committed = image
        /\ open = FALSE

Begin == /\ ~open
         /\ open' = TRUE
         /\ UNCHANGED <<image, snapshots, committed>>

Change == /\ open
          /\ \E p \in 1..Len(image), c \in Contents : image' = [image EXCEPT ![p] = c]
          /\ UNCHANGED <<snapshots, committed, open>>

(* A new page is entered in page 1, which counts the pages.                *)
Extend == /\ open
          /\ \E c, d \in Contents : image' = Append([image EXCEPT ![1] = c], d)
          /\ UNCHANGED <<snapshots, committed, open>>

Save == /\ open
        /\ snapshots' = Append(snapshots, image)
        /\ UNCHANGED <<image, committed, open>>

Release(i) == /\ open
              /\ snapshots' = SubSeq(snapshots, 1, i - 1)
              /\ UNCHANGED <<image, committed, open>>

(* Savepoint 0 is the transaction itself.                                  *)
Back(i) == /\ open
           /\ image' = (<<committed>> \o snapshots)[i + 1]
           /\ snapshots' = SubSeq(snapshots, 1, i)
           /\ UNCHANGED <<committed, open>>

End == /\ open
       /\ open' = FALSE
       /\ snapshots' = <<>>
       /\ image' = committed'

Commit == End /\ committed' = image
Abandon == End /\ UNCHANGED committed

Next == \/ Begin \/ Change \/ Extend \/ Save \/ Commit \/ Abandon
        \/ \E i \in DOMAIN snapshots : Release(i)
        \/ \E i \in 0..Len(snapshots) : Back(i)

Spec == Init /\ [][Next]_vars
==============================================================================
