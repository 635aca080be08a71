--------------------------- MODULE RoomRefinement ---------------------------
(***************************************************************************)
(* A room over its store is a workspace: the refinement mapping from       *)
(* RoomPersistence to Workspace.                                           *)
(***************************************************************************)
EXTENDS RoomPersistence

\* Does the room, and not the store alone, hold the workspace?
InMemory == status \in {"live", "closing", "flushed"}

\* The root a client that joins now gets.
CurrentRoot == IF InMemory THEN root ELSE storedRoot

\* The text it gets: the tracked document, or the blob that is still to be
\* loaded into it.
CurrentText(n) ==
  IF n \notin CurrentRoot.notes THEN {}
  ELSE IF InMemory /\ n \in loaded THEN doc[n]
  ELSE blob[n]

ClientView ==
  IF Replacing
    THEN [notes |-> {}, edits |-> {}, text |-> NoDocs]
    ELSE [notes |-> CurrentRoot.notes, edits |-> CurrentRoot.edits,
          text  |-> [n \in Notes |-> CurrentText(n)]]

\* The replacements that are queued or running, without their kind.
SnapshotOf(task) == [notes |-> task.notes, edits |-> task.edits]

WithAsked(replacements, task) ==
  IF task.kind = "replace" THEN Append(replacements, SnapshotOf(task))
                           ELSE replacements

AskedIn(tasks) ==
  LET first[i \in 0 .. Len(tasks)] ==
        IF i = 0 THEN << >> ELSE WithAsked(first[i - 1], tasks[i])
  IN  first[Len(tasks)]

Asked == AskedIn(queue)

Clients == INSTANCE Workspace WITH workspace <- ClientView, asked <- Asked

\* A room and its store implement a workspace: whatever is being loaded, saved
\* (with store calls that fail), flushed, closed or reopened, a client that
\* joins gets exactly what the clients before it made, and a replacement takes
\* the place of all of it, in the order of the requests.
RoomIsWorkspace == Clients!Spec

=============================================================================
