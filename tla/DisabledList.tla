---------------------------- MODULE DisabledList ----------------------------
(***************************************************************************)
(* FileDisabledList of src/enabled.rs: a running node's copy of the list   *)
(* of disabled services, kept fresh against a file other processes write.  *)
(*                                                                         *)
(* The file is the path's current inode; an inode keeps what it held when  *)
(* the path is given another.  Every write moves the clock, so a stamp is  *)
(* the instant of an inode's last write; the stamp's length tells apart    *)
(* writes within one tick of a coarser clock and is left out.              *)
(***************************************************************************)
EXTENDS Naturals, FiniteSets

CONSTANTS
  Services,   \* the names the list may hold
  \* Bound:
  MaxClock    \* how many writes there are

ASSUME DisabledAssumption == MaxClock \in Nat

VARIABLES
  inPlace,  \* whether writers edit the file in place, beside replacing it
  path,     \* the inode the path names, as a set: {} when there is no file
  inode,    \* what each inode holds: its names and its stamp
  clock,    \* the instant of the last write
  list,     \* State: the names held, their stamp, whether a stat is due
  loader,   \* where the loader, or the refresh, is
  hand      \* what it holds: an inode, names, a stamp

listVars == <<inPlace, path, inode, clock, list, loader, hand>>
disk == <<inPlace, path, inode, clock>>

\* An inode is named for the write that made it.
Inodes == 1..MaxClock
Nowhere == [names |-> {}, stamp |-> 0]
Empty == [inode |-> 0, names |-> {}, stamp |-> 0]
NotLoaded == [names |-> {}, stamp |-> 0, due |-> TRUE]

ListInit ==
  /\ inPlace \in BOOLEAN
  /\ path = {}
  /\ inode = [i \in Inodes |-> Nowhere]
  /\ clock = 0
  /\ list = NotLoaded
  /\ loader = "down"
  /\ hand = Empty

File == {inode[i] : i \in path}
-----------------------------------------------------------------------------
(* Other processes *)

Write(i, names) ==
  /\ clock < MaxClock
  /\ clock' = clock + 1
  /\ inode' = [inode EXCEPT ![i] = [names |-> names, stamp |-> clock + 1]]
  /\ UNCHANGED <<inPlace, list, loader, hand>>

\* A file renamed over the path, or created there.
Replace(names) ==
  /\ Write(clock + 1, names)
  /\ path' = {clock + 1}

\* A truncation, then the new contents: two writes of one inode.
Edit(names) ==
  /\ inPlace
  /\ \E i \in path : Write(i, names)
  /\ UNCHANGED path

Delete ==
  /\ path # {}
  /\ path' = {}
  /\ UNCHANGED <<inPlace, inode, clock, list, loader, hand>>
-----------------------------------------------------------------------------
(* FileDisabledList::load *)

Loaded(names, stamp) ==
  /\ list' = [names |-> names, stamp |-> stamp, due |-> TRUE]
  /\ loader' = "up"
  /\ hand' = Empty

\* An absent file is an empty list with no stamp.
LoadAbsent ==
  /\ loader = "down"
  /\ path = {}
  /\ Loaded({}, 0)
  /\ UNCHANGED disk

LoadOpen ==
  /\ loader = "down"
  /\ \E i \in path : hand' = [Empty EXCEPT !.inode = i]
  /\ loader' = "opened"
  /\ UNCHANGED <<disk, list>>

LoadRead ==
  /\ loader = "opened"
  /\ hand' = [hand EXCEPT !.names = inode[hand.inode].names]
  /\ loader' = "loaded"
  /\ UNCHANGED <<disk, list>>

\* Mutant: the stamp is taken from the path and not from the handle.
LoadStampPath ==
  /\ loader = "loaded"
  /\ Loaded(hand.names, IF path = {} THEN 0 ELSE CHOOSE t \in {f.stamp : f \in File} : TRUE)
  /\ UNCHANGED disk

\* The stamp comes from the handle the names were read from.
LoadStamp ==
  /\ loader = "loaded"
  /\ Loaded(hand.names, inode[hand.inode].stamp)
  /\ UNCHANGED disk
-----------------------------------------------------------------------------
(* FileDisabledList::is_enabled and refresh, behind the list's mutex *)

\* STAT_DEBOUNCE has passed.
Elapse ==
  /\ loader = "up"
  /\ list' = [list EXCEPT !.due = TRUE]
  /\ UNCHANGED <<disk, loader, hand>>

\* No file, an error, or the stamp the names were read at: they stay.
StatKeeps ==
  /\ loader = "up"
  /\ list.due
  /\ list' = [list EXCEPT !.due = FALSE]
  /\ UNCHANGED <<disk, loader, hand>>

StatMoved ==
  /\ loader = "up"
  /\ list.due
  /\ \E f \in File : f.stamp # list.stamp /\ hand' = [Empty EXCEPT !.stamp = f.stamp]
  /\ list' = [list EXCEPT !.due = FALSE]
  /\ loader' = "stale"
  /\ UNCHANGED disk

Settle(names, stamp) ==
  /\ loader = "stale"
  /\ list' = [list EXCEPT !.names = names, !.stamp = stamp]
  /\ loader' = "up"
  /\ hand' = Empty
  /\ UNCHANGED disk

\* The path is read again; the stamp stays the one that was seen before.
ReadPath == \E f \in File : Settle(f.names, hand.stamp)

\* Mutants: what cannot be read is an empty list; its stamp is kept.
ReadFailsEmpties == Settle({}, hand.stamp)
ReadFailsStamped == Settle(list.names, hand.stamp)

\* Raced away, or unreadable: the names and the stamp stay.
ReadFails == Settle(list.names, list.stamp)

\* The node ends, and is run again.
Restart ==
  /\ loader # "down"
  /\ loader' = "down"
  /\ list' = NotLoaded
  /\ hand' = Empty
  /\ UNCHANGED disk
-----------------------------------------------------------------------------
Writers ==
  \/ \E names \in SUBSET Services : Replace(names) \/ Edit(names)
  \/ Delete

Reader ==
  \/ LoadAbsent \/ LoadOpen \/ LoadRead \/ LoadStamp
  \/ Elapse \/ StatKeeps \/ StatMoved \/ ReadPath \/ ReadFails
  \/ Restart

ListNext == Writers \/ Reader

ListSpec == ListInit /\ [][ListNext]_listVars

(***************************************************************************)
(* A load goes on, the debounce passes, streams keep asking, and a stat or *)
(* a read that would succeed does not fail for ever.                       *)
(***************************************************************************)
Fairness ==
  /\ WF_listVars(LoadRead \/ LoadStamp)
  /\ WF_listVars(loader = "up" /\ ~list.due /\ Elapse)
  /\ SF_listVars(StatMoved)
  /\ SF_listVars(ReadPath)

FairListSpec == ListSpec /\ Fairness
-----------------------------------------------------------------------------
(* Properties *)

Lists == SUBSET Services
Stamps == 0..MaxClock

\* The type invariant: the shape of the file, the list and the loader.
ListTypeOK ==
  /\ inPlace \in BOOLEAN
  /\ path \in {{}} \cup {{i} : i \in Inodes}
  /\ inode \in [Inodes -> [names : Lists, stamp : Stamps]]
  /\ clock \in Stamps
  /\ list \in [names : Lists, stamp : Stamps, due : BOOLEAN]
  /\ loader \in {"down", "opened", "loaded", "up", "stale"}
  /\ hand \in [inode : {0} \cup Inodes, names : Lists, stamp : Stamps]
  /\ \A i \in path : inode[i].stamp # 0
  /\ loader = "stale" => ~list.due

(***************************************************************************)
(* A list that wears the file's stamp holds the file's names: "a file      *)
(* replaced during this load cannot stamp the old contents as current and  *)
(* make every later refresh skip a real toggle", nor can one replaced      *)
(* between a refresh's stat and its read.  (ListTypeOK is the shape of both.)  *)
(***************************************************************************)
StampTellsTheTruth ==
  /\ ListTypeOK
  /\ ~inPlace =>
       \A f \in File :
         loader \in {"up", "stale"} /\ list.stamp = f.stamp => list.names = f.names

(***************************************************************************)
(* "Fail closed on every uncertainty": what a running node holds only ever *)
(* becomes what a file at the path holds at that moment, so its deletion,  *)
(* at any point of a refresh, never enables a service again.               *)
(***************************************************************************)
FailsClosed ==
  [][loader = "stale" /\ loader' = "up" =>
       list'.names = list.names \/ \E f \in File : list'.names = f.names]_listVars

(***************************************************************************)
(* A toggle goes live: once the writers are done and the file stays, a     *)
(* node that keeps running comes to hold what it says.  Writers that edit  *)
(* in place break this and the property above, in a load whose stamp is    *)
(* taken between the edit and a read that came before it.                  *)
(***************************************************************************)
Settled(names) ==
  /\ clock = MaxClock
  /\ \E f \in File : f.names = names

TogglesGoLive ==
  \A names \in SUBSET Services :
    <>[](~inPlace /\ Settled(names) /\ loader # "down") => <>[](list.names = names)
=============================================================================
