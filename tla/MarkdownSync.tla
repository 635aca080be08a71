---------------------------- MODULE MarkdownSync ----------------------------
(***************************************************************************)
(* The markdown side of the sandbox's sync manager (execenv): one note of  *)
(* the workspace and the file it is mapped to.                             *)
(*                                                                         *)
(* Users edit the note's document at any time.  Nothing writes their edits *)
(* to the file; it only meets them when the agent changes the file.  The   *)
(* watcher then queues an event, and the handler (one at a time) reads the *)
(* file, compares it with the note and with the shadow, the markdown both  *)
(* last agreed on, and applies it, merges it, or writes the note back over *)
(* it.  The manager's own writes are noticed by the same watcher, and are  *)
(* told from the agent's by a list of suppressed contents.                 *)
(*                                                                         *)
(* A text is the set of its lines.  Putting a text into the note parses it *)
(* into blocks, and the note is known by what its blocks print as: a line  *)
(* of the agent may be dropped, or printed in another spelling.  Every     *)
(* await of the handler is a place where users, the agent and the watcher  *)
(* may move.                                                               *)
(***************************************************************************)
EXTENDS Integers, Sequences, FiniteSets, Bags

CONSTANTS
  AgentLines,     \* lines only the agent writes
  UserLines,      \* lines only users write, or that the note starts with
  Printed,        \* what the note prints of a line that is put into it
  None,           \* no file, no note, no shadow
  MaxFileChanges, \* bound: changes the agent makes to the file
  MaxNoteChanges  \* bound: changes users make to the note

ASSUME MarkdownSyncAssumption ==
  /\ MaxFileChanges \in Nat /\ MaxNoteChanges \in Nat
  /\ \A text \in SUBSET (AgentLines \union UserLines) : text # None
  /\ None \notin [lines : SUBSET (AgentLines \union UserLines), by : {"sync", "agent"}]
  /\ AgentLines \intersect UserLines = {}

\* A line that a note has printed is printed again as it is, and so is a line
\* users have typed.
ASSUME PrintedAssumption ==
  /\ Printed \in [AgentLines \union UserLines -> SUBSET (AgentLines \union UserLines)]
  /\ \A l \in AgentLines \union UserLines : \A p \in Printed[l] : Printed[p] = {p}
  /\ \A l \in UserLines : Printed[l] = {l}

VARIABLES
  doc,         \* the note: the lines it prints as, or None when it is deleted
  file,        \* the file: its lines and who wrote it, or None
  mapped,      \* pathMapper has the file
  shadow,      \* markdownShadowByNodeId of the note
  suppressed,  \* internalWriteSuppressionsByPath of the file, a bag
  watching,    \* the watchers have done their first scan
  dirty,       \* the file has changed since the watcher looked
  known,       \* the watcher knows the file as existing
  timers,      \* deletions that wait for RENAME_WINDOW_MS
  queue,       \* events in handlerQueue
  at,          \* where the handler is
  job,         \* its locals: the text it read, the note's text it compared
               \* with, the text to put and whether to write it back
  protected,   \* the note is the canonical Kanwas.md
  wanted,      \* ghost: lines somebody wrote and nobody took away, as the
               \* note prints them
  removed,     \* ghost: lines users have taken from the note (users) and the
               \* agent from the file (agent), at any time
  mishaps,     \* ghost: races the handler does not see, that have happened
  left         \* bounds: changes agent and users may still make

manager == <<mapped, shadow, suppressed>>
watcher == <<watching, dirty, known, timers, queue>>
ghosts  == <<wanted, removed, mishaps>>
vars == <<doc, file, manager, watcher, at, job, protected, ghosts, left>>

Lines == AgentLines \union UserLines
Texts == SUBSET Lines
Events == {"create", "update", "delete"}
Places == {"hydrate", "seed", "idle", "read", "decide", "apply", "refresh",
           "writeback", "restore"}
Races == {"edited mid-sync", "file overwritten", "write taken for an echo",
          "deleted under the file", "note gone", "restored past the shadow",
          "removal unseen", "changed before the watch"}

NoJob == [lines |-> {}, exact |-> FALSE, by |-> "sync", current |-> {},
          put |-> {}, back |-> FALSE]

\* doc, shadow or file as lines, nothing when there is none.
LinesOf(x) == IF x = None THEN {} ELSE x

\* tryParseMarkdownToBlocks and, when the note is read again,
\* blocksToMarkdownLossy.
Shown(text) == UNION {Printed[l] : l \in text}

\* No line of the text is there twice, in one spelling or in two.
Single(text) ==
  \A l, m \in text : Printed[l] \intersect Printed[m] # {} => l = m

\* The handler is done with an event; its locals are gone.
Done == at' = "idle" /\ job' = NoJob

Happened(cond, race) == IF cond THEN {race} ELSE {}

---------------------------------------------------------------------------
(* Writes of the manager. *)

\* writeMarkdownWithSuppression: the suppression is registered before the
\* file is written, and both before the handler ends.
Write(lines) ==
  /\ file' = [lines |-> lines, by |-> "sync"]
  /\ suppressed' = suppressed (+) SetToBag({lines})
  /\ dirty' = TRUE

\* The agent has changed the file since the handler read it: a write of the
\* manager covers the change.
Unread == file = None \/ file.lines # job.lines

\* consumeInternalWriteSuppression: an entry matches by the hash of the text.
Suppressed == job.exact /\ BagIn(job.lines, suppressed)

---------------------------------------------------------------------------
(* The three-way merge. *)

BaseIsNote ==   \* mutant: the shadow is not looked at
  job.current

Base == IF shadow = None THEN job.current ELSE shadow

\* content === current.  job.exact says that the text the handler read is
\* what a note with these lines prints as.
SameAsNote == job.exact /\ job.lines = job.current

MergedAddsOnly ==   \* mutant: what the file took away comes back
  job.current \union (job.lines \ Base)

\* mergeMarkdown3Way: the file's changes since the base, on top of the note.
Merged ==
  (job.current \ (Base \ job.lines)) \union (job.lines \ Base)

\* diff3 may find that the two sides changed the same place when both did.  Lines
\* do not move in this model.
MayConflict == ~(job.exact /\ job.lines = Base)

\* It does find so where the agent spells a line of the base otherwise than the
\* note printed it, and users have taken that line away.
Clash == (Base \ job.current) \intersect Shown(job.lines \ Base) # {}

---------------------------------------------------------------------------
(* initialize *)

Init ==
  /\ doc \in SUBSET UserLines
  /\ protected \in BOOLEAN
  /\ file = None /\ mapped = FALSE /\ shadow = None /\ suppressed = EmptyBag
  /\ watching = FALSE /\ dirty = FALSE /\ known = FALSE /\ timers = 0 /\ queue = <<>>
  /\ at = "hydrate" /\ job = NoJob
  /\ wanted = doc /\ mishaps = {}
  /\ removed = [users |-> {}, agent |-> {}]
  /\ left = [agent |-> MaxFileChanges, users |-> MaxNoteChanges]

\* workspaceToFilesystem and writeFSNode.
Hydrate ==
  /\ at = "hydrate" /\ at' = "seed"
  /\ file' = IF doc = None THEN None ELSE [lines |-> doc, by |-> "sync"]
  /\ UNCHANGED <<doc, manager, watcher, job, protected, ghosts, left>>

\* buildFromWorkspace and seedMarkdownShadowState, after the files have been
\* written, and the ready marker.
Seed ==
  /\ at = "seed" /\ at' = "idle"
  /\ mapped' = (doc # None)
  /\ shadow' = doc
  /\ mishaps' = mishaps \union
       Happened(doc # IF file = None THEN None ELSE file.lines, "edited mid-sync")
  /\ UNCHANGED <<doc, file, suppressed, watcher, job, protected, wanted, removed, left>>

---------------------------------------------------------------------------
(* The users and the agent. *)

\* Users write their own lines and remove any.  They do not write again a line
\* the agent has taken away.
UserEdits ==
  /\ doc # None /\ left.users > 0
  /\ \/ \E l \in UserLines \ (doc \union removed.agent) :
          /\ doc' = doc \union {l}
          /\ wanted' = wanted \union {l}
          /\ UNCHANGED removed
     \/ \E l \in doc :
          /\ doc' = doc \ {l}
          /\ wanted' = wanted \ {l}
          /\ removed' = [removed EXCEPT !.users = @ \union {l}]
  /\ left' = [left EXCEPT !.users = @ - 1]
  /\ UNCHANGED <<file, manager, watcher, at, job, protected, mishaps>>

UserDeletesNote ==
  /\ doc # None /\ left.users > 0
  /\ doc' = None /\ wanted' = {}
  /\ left' = [left EXCEPT !.users = @ - 1]
  /\ UNCHANGED <<file, manager, watcher, at, job, protected, removed, mishaps>>

\* The agent changes the file once the ready marker is there: it writes its own
\* lines, spells lines of the file anew, and writes again any it has taken away.
\* Its tool reads and writes the file in one step.
AgentChanges(new) ==
  /\ at \notin {"hydrate", "seed"} /\ left.agent > 0
  /\ LET old == IF file = None THEN {} ELSE Shown(file.lines)
         now == Shown(LinesOf(new))
     IN /\ now \ old \subseteq AgentLines \union removed.agent
        /\ wanted' = (wanted \ (old \ now)) \union (now \ old)
        /\ removed' = [removed EXCEPT !.agent = @ \union (old \ now)]
  /\ dirty' = TRUE
  /\ left' = [left EXCEPT !.agent = @ - 1]
  /\ UNCHANGED <<doc, manager, watching, known, timers, queue, at, job, protected, mishaps>>

AgentWrites ==
  \E new \in Texts :
    /\ Single(new)
    /\ file' = [lines |-> new, by |-> "agent"]
    /\ file' # file
    /\ AgentChanges(new)

AgentRemovesFile ==
  /\ file # None /\ file' = None
  /\ AgentChanges(None)

---------------------------------------------------------------------------
(* The watcher. *)

\* seedKnownPaths.  The first scan reports nothing (ignoreInitial), not even
\* what the agent wrote since the ready marker.
WatchersReady ==
  /\ ~watching /\ at = "idle"
  /\ watching' = TRUE /\ dirty' = FALSE /\ known' = (file # None)
  /\ mishaps' = mishaps \union Happened(dirty, "changed before the watch")
  /\ UNCHANGED <<doc, file, manager, timers, queue, at, job, protected, wanted,
                 removed, left>>

\* handleUpdate and handleAdd: changes that follow each other closely are one
\* notification.
NoticeFile ==
  /\ watching /\ dirty /\ file # None
  /\ dirty' = FALSE /\ known' = TRUE
  /\ queue' = Append(queue, IF known THEN "update" ELSE "create")
  /\ UNCHANGED <<doc, file, manager, watching, timers, at, job, protected, ghosts, left>>

\* handleDelete: the event waits to become a rename.  Nothing is reported of a
\* file that was written and removed between two looks.
NoticeRemoval ==
  /\ watching /\ dirty /\ file = None
  /\ dirty' = FALSE /\ known' = FALSE
  /\ timers' = timers + (IF known THEN 1 ELSE 0)
  /\ mishaps' = mishaps \union Happened(~known, "removal unseen")
  /\ UNCHANGED <<doc, file, manager, watching, queue, at, job, protected, wanted,
                 removed, left>>

DeletionDueAgain ==   \* mutant: the timer fires again
  /\ timers' = timers - 1
  /\ queue' = Append(queue, "delete")
  /\ UNCHANGED <<doc, file, manager, watching, dirty, known, at, job, protected, ghosts,
                 left>>

\* The timer of handleDelete.  takeRecentDeleteMatch stops it for another
\* path only: a file that came back at its own path does not.
DeletionDue ==
  /\ timers > 0 /\ timers' = timers - 1
  /\ queue' = Append(queue, "delete")
  /\ UNCHANGED <<doc, file, manager, watching, dirty, known, at, job, protected, ghosts,
                 left>>

\* INTERNAL_WRITE_SUPPRESSION_TTL_MS is over.
SuppressionExpires ==
  /\ \E lines \in BagToSet(suppressed) :
       suppressed' = suppressed (-) SetToBag({lines})
  /\ UNCHANGED <<doc, file, mapped, shadow, watcher, at, job, protected, ghosts, left>>

---------------------------------------------------------------------------
(* The handler: handleFileChangeInternal. *)

Take(type) ==
  /\ at = "idle" /\ queue # <<>> /\ Head(queue) = type
  /\ queue' = Tail(queue)

\* prepareContent.  A file that has gone meanwhile is skipped.
ReadFile ==
  /\ Take("create") \/ Take("update")
  /\ IF file = None
     THEN UNCHANGED <<at, job>>
     ELSE /\ at' = "read"
          /\ \E exact \in IF file.by = "sync" THEN {TRUE} ELSE BOOLEAN :
               job' = [NoJob EXCEPT !.lines = file.lines, !.exact = exact,
                                    !.by = file.by, !.put = file.lines]
  /\ UNCHANGED <<doc, file, manager, watching, dirty, known, timers, protected, ghosts,
                 left>>

\* deleteNode, which does not look whether the file is really gone.
DeleteNote ==
  /\ Take("delete")
  /\ ~(protected /\ mapped /\ doc # None)
  /\ IF mapped
     THEN /\ doc' = None /\ mapped' = FALSE /\ shadow' = None /\ wanted' = {}
          /\ mishaps' = mishaps \union Happened(file # None, "deleted under the file")
     ELSE UNCHANGED <<doc, mapped, shadow, wanted, mishaps>>
  /\ UNCHANGED <<file, suppressed, watching, dirty, known, timers, at, job, protected,
                 removed, left>>

\* maybeBlockKanwasDelete and restoreKanwasFile, which leaves the shadow as it is.
RestoreKanwas ==
  /\ Take("delete")
  /\ protected /\ mapped /\ doc # None
  /\ Write(doc)
  /\ wanted' = wanted \union doc
  /\ mishaps' = mishaps \union Happened(shadow # doc, "restored past the shadow")
       \union Happened(file # None /\ file.lines # doc, "file overwritten")
  /\ UNCHANGED <<doc, mapped, shadow, watching, known, timers, at, job, protected,
                 removed, left>>

\* preflightMarkdownChange up to its await: an echo ends here, otherwise the
\* note is printed.
Preflight ==
  /\ at = "read"
  /\ IF mapped /\ Suppressed
     THEN /\ suppressed' = suppressed (-) SetToBag({job.lines})
          /\ Done
          /\ mishaps' = mishaps \union Happened(
               job.by = "agent" /\ job.lines # shadow, "write taken for an echo")
     ELSE /\ at' = IF mapped /\ doc # None THEN "decide" ELSE "apply"
          /\ job' = [job EXCEPT !.current = LinesOf(doc)]
          /\ UNCHANGED <<suppressed, mishaps>>
  /\ UNCHANGED <<doc, file, mapped, shadow, watcher, protected, wanted, removed, left>>

\* The rest of it.  Text that merges into the note's own is not told from a
\* conflict here: both put the note back over the file.
Decide ==
  /\ at = "decide"
  /\ \/ /\ SameAsNote
        /\ Done /\ shadow' = job.current
     \/ /\ ~SameAsNote /\ Base = job.current
        /\ at' = "apply" /\ shadow' = Base /\ UNCHANGED job
     \/ /\ ~SameAsNote /\ Base # job.current
        /\ MayConflict \/ Merged = job.current
        /\ at' = "restore" /\ UNCHANGED <<shadow, job>>
     \/ /\ ~SameAsNote /\ Base # job.current
        /\ ~Clash
        /\ Merged # job.current \/ ~job.exact
        /\ at' = "apply" /\ UNCHANGED shadow
        /\ \E back \in IF Merged = job.lines THEN BOOLEAN ELSE {TRUE} :
             job' = [job EXCEPT !.put = Merged, !.back = back]
  /\ UNCHANGED <<doc, file, mapped, suppressed, watcher, protected, ghosts, left>>

\* merge_noop_restore and conflict_preserved_ydoc: what the agent wanted else
\* is refused.
RestoreFile ==
  /\ at = "restore" /\ Done
  /\ Write(job.current)
  /\ shadow' = job.current
  /\ wanted' = (wanted \ (Shown(job.lines) \ (job.current \union LinesOf(doc))))
                 \union ((job.current \ Shown(job.lines)) \intersect LinesOf(doc))
  /\ mishaps' = mishaps \union Happened(Unread, "file overwritten")
  /\ UNCHANGED <<doc, mapped, watching, known, timers, queue, protected, removed, left>>

ApplyUnmapped ==   \* mutant: createNode does not add the mapping
  /\ at = "apply"
  /\ ~mapped \/ doc # None
  /\ doc' = Shown(job.put)
  /\ protected' = (protected /\ mapped)
  /\ mishaps' = mishaps \union
       Happened(LinesOf(doc) # job.current, "edited mid-sync")
  /\ at' = "refresh"
  /\ UNCHANGED <<file, manager, watcher, job, wanted, removed, left>>

\* syncMarkdownFile: updateNodeContent replaces what the note holds by then;
\* createNode makes a note for a file that has none, of no system kind.
Apply ==
  /\ at = "apply"
  /\ ~mapped \/ doc # None
  /\ doc' = Shown(job.put) /\ mapped' = TRUE
  /\ protected' = (protected /\ mapped)
  /\ mishaps' = mishaps \union
       Happened(LinesOf(doc) # job.current, "edited mid-sync")
  /\ at' = "refresh"
  /\ UNCHANGED <<file, shadow, suppressed, watcher, job, wanted, removed, left>>

ApplyFailsChain ==   \* mutant: the rejection stays in the queue's promise chain
  /\ at = "apply" /\ mapped /\ doc = None
  /\ mishaps' = mishaps \union {"note gone"}
  /\ UNCHANGED <<doc, file, manager, watcher, at, job, protected, wanted, removed, left>>

\* The note was deleted by a user; the mapping is still there.
ApplyFails ==
  /\ at = "apply" /\ mapped /\ doc = None
  /\ Done
  /\ mishaps' = mishaps \union {"note gone"}
  /\ UNCHANGED <<doc, file, manager, watcher, protected, wanted, removed, left>>

RefreshWithText ==   \* mutant: the shadow is the text that was put, not its print
  /\ at = "refresh"
  /\ shadow' = IF doc = None THEN None ELSE job.put
  /\ IF job.back THEN at' = "writeback" /\ UNCHANGED job ELSE Done
  /\ mishaps' = mishaps \union
       Happened(~job.back /\ LinesOf(doc) # Shown(job.put), "edited mid-sync")
  /\ UNCHANGED <<doc, file, mapped, suppressed, watcher, protected, wanted, removed, left>>

\* updateMarkdownShadowFromSyncResult: the shadow is the note's print.  The file
\* keeps the agent's text unless a merge is to be written back.
RefreshShadow ==
  /\ at = "refresh"
  /\ shadow' = doc
  /\ IF job.back THEN at' = "writeback" /\ UNCHANGED job ELSE Done
  /\ mishaps' = mishaps \union
       Happened(~job.back /\ LinesOf(doc) # Shown(job.put), "edited mid-sync")
  /\ UNCHANGED <<doc, file, mapped, suppressed, watcher, protected, wanted, removed, left>>

\* writebackContentAfterSync
WriteBack ==
  /\ at = "writeback" /\ Done
  /\ Write(IF shadow = None THEN job.put ELSE shadow)
  /\ mishaps' = mishaps \union Happened(Unread, "file overwritten")
  /\ UNCHANGED <<doc, mapped, shadow, watching, known, timers, queue, protected, wanted,
                 removed, left>>

---------------------------------------------------------------------------

Watch == WatchersReady \/ NoticeFile \/ NoticeRemoval \/ DeletionDue

Handle ==
  \/ Hydrate \/ Seed
  \/ ReadFile \/ DeleteNote \/ RestoreKanwas
  \/ Preflight \/ Decide \/ RestoreFile
  \/ Apply \/ ApplyFails \/ RefreshShadow \/ WriteBack

Next ==
  \/ Watch \/ Handle \/ SuppressionExpires
  \/ UserEdits \/ UserDeletesNote
  \/ AgentWrites \/ AgentRemovesFile

\* The watcher and the handler go on; nobody makes users or the agent act, and
\* a suppression may live as long as nobody looks at it.
Spec == Init /\ [][Next]_vars /\ WF_vars(Watch) /\ WF_vars(Handle)

---------------------------------------------------------------------------
(* Properties. *)

TypeOK ==
  /\ doc \in Texts \union {None}
  /\ file \in [lines : Texts, by : {"sync", "agent"}] \union {None}
  /\ mapped \in BOOLEAN
  /\ shadow \in Texts \union {None}
  /\ IsABag(suppressed) /\ BagToSet(suppressed) \subseteq Texts
  /\ watching \in BOOLEAN /\ dirty \in BOOLEAN /\ known \in BOOLEAN
  /\ timers \in Nat /\ queue \in Seq(Events)
  /\ at \in Places
  /\ job \in [lines : Texts, exact : BOOLEAN, by : {"sync", "agent"},
              current : Texts, put : Texts, back : BOOLEAN]
  /\ protected \in BOOLEAN
  /\ wanted \in Texts
  /\ removed \in [users : Texts, agent : Texts]
  /\ mishaps \in SUBSET Races
  /\ left \in [agent : 0 .. MaxFileChanges, users : 0 .. MaxNoteChanges]

\* The watcher has nothing to report and the handler nothing to do.
Quiet == at = "idle" /\ watching /\ ~dirty /\ timers = 0 /\ queue = <<>>

\* The shadow is what a note made of the file would print, whenever the manager
\* is at rest: only then does the next merge tell the agent's changes from the
\* users'.  The file itself may say more, or spell it otherwise.  A file that is
\* gone has no mapping (preflightMarkdownChange and
\* updateMarkdownShadowFromSyncResult).
ShadowIsFile ==
  Quiet /\ mishaps = {} =>
    IF file = None THEN ~mapped
    ELSE doc # None => mapped /\ shadow = Shown(file.lines)

\* Lines users and agent have both taken away: what they want of one that came
\* back cannot be said.
Contested == removed.users \intersect removed.agent

\* At rest a note that no user has deleted holds every line its users and the
\* agent wrote and nobody took away, as far as a note can say it, and no other:
\* echoes, merges, write-backs and refused conflicts neither lose an edit nor
\* bring one back, though the agent's lines meet the note's own spelling of
\* them, and what the note cannot say is nowhere but in the file.
NoteAsWanted ==
  Quiet /\ mishaps = {} /\ (mapped => doc # None) =>
    LinesOf(doc) \ Contested = wanted \ Contested

\* Not even on the way does a line of the users leave the note (the test
\* 'preserves yDoc and restores filesystem when concurrent edits overlap').
UserLinesKept ==
  mishaps = {} => (wanted \intersect UserLines) \ removed.agent \subseteq LinesOf(doc)

\* A file the agent has written has a note, unless a deletion that was due for
\* an earlier file of that path took it (DeletionDue) or no watcher saw it:
\* whatever else raced, the next event maps the file again.
FileHasNote ==
  Quiet /\ file # None
    /\ mishaps \intersect {"deleted under the file", "changed before the watch"} = {}
  => (file.by = "agent" => mapped)

\* What the manager writes does not make it write again: whatever the races,
\* watcher and handler come to rest when nobody else changes anything.
ComesToRest == []<>Quiet

=============================================================================
