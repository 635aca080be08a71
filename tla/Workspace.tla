----------------------------- MODULE Workspace -----------------------------
(***************************************************************************)
(* What a workspace is to its clients, whoever holds it: one root that     *)
(* attaches notes and one text per attached note, which change when a      *)
(* client changes them and at no other time.  Rooms that open and close,   *)
(* loads, debounced saves, store calls that fail and blobs that are        *)
(* deleted must not be seen in it.                                         *)
(*                                                                         *)
(* A snapshot replacement is seen twice: when it begins to overwrite the   *)
(* workspace, of which nothing is promised then, and when it is done.      *)
(***************************************************************************)
EXTENDS Integers, Sequences

CONSTANTS
  Notes,        \* note ids
  Edits         \* edits clients make, each at most once

VARIABLES
  workspace,    \* the attached notes, the root's edits and each note's edits
  asked         \* the replacements that were asked for, in their order

Documents == [notes : SUBSET Notes, edits : SUBSET Edits,
              text : [Notes -> SUBSET Edits]]
Snapshot  == [notes : SUBSET Notes, edits : SUBSET Edits]

\* What the workspace holds while a replacement overwrites it.
Overwritten == [notes |-> {}, edits |-> {}, text |-> [n \in Notes |-> {}]]

TypeOK == workspace \in Documents /\ asked \in Seq(Snapshot)

Init ==
  /\ \E notes \in SUBSET Notes :
       workspace = [Overwritten EXCEPT !.notes = notes]
  /\ asked = << >>

EditNote(n, e) ==
  /\ n \in workspace.notes
  /\ workspace' = [workspace EXCEPT !.text[n] = @ \union {e}]
  /\ UNCHANGED asked

EditRoot(e) ==
  /\ workspace' = [workspace EXCEPT !.edits = @ \union {e}]
  /\ UNCHANGED asked

CreateNote(n, e) ==
  /\ n \notin workspace.notes
  /\ workspace' = [notes |-> workspace.notes \union {n},
                   edits |-> workspace.edits \union {e},
                   text  |-> [workspace.text EXCEPT ![n] = {e}]]
  /\ UNCHANGED asked

RemoveNote(n, e) ==
  /\ n \in workspace.notes
  /\ workspace' = [notes |-> workspace.notes \ {n},
                   edits |-> workspace.edits \union {e},
                   text  |-> [workspace.text EXCEPT ![n] = {}]]
  /\ UNCHANGED asked

AskToReplace(snapshot) ==
  /\ asked' = Append(asked, snapshot)
  /\ UNCHANGED workspace

BeginReplacing ==
  /\ asked # << >>
  /\ workspace' = Overwritten
  /\ UNCHANGED asked

\* All of the snapshot that was asked for first, and nothing else.
Replace ==
  /\ asked # << >>
  /\ LET s == Head(asked)
     IN  workspace' = [notes |-> s.notes, edits |-> s.edits,
                       text  |-> [n \in Notes |->
                                    IF n \in s.notes THEN s.edits ELSE {}]]
  /\ asked' = Tail(asked)

Next ==
  \/ \E e \in Edits :
       \/ EditRoot(e)
       \/ \E n \in Notes : EditNote(n, e) \/ CreateNote(n, e) \/ RemoveNote(n, e)
  \/ \E s \in Snapshot : AskToReplace(s)
  \/ BeginReplacing \/ Replace

Spec == Init /\ [][Next]_<<workspace, asked>>

=============================================================================
