-------------------------- MODULE MCMarkdownSync ---------------------------
(* Instances of MarkdownSync for TLC. *)
EXTENDS MarkdownSync, TLC

CONSTANTS
  said,      \* a line the note prints as the agent writes it
  respelled, \* another spelling of it, as "- one" is of "* one"
  unsaid,    \* a line no block can hold, as a comment
  typed,     \* a line of the users
  retyped    \* the agent's spelling of that

SomeAgentLines == {said, respelled, unsaid, retyped}
SomeUserLines == {typed}

Prints ==
  [l \in SomeAgentLines \union SomeUserLines |->
     CASE l = respelled -> {said}
       [] l = retyped -> {typed}
       [] l = unsaid -> {}
       [] OTHER -> {l}]

=============================================================================
