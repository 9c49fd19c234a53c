---------------------------- MODULE MCPrerequisites ----------------------------
(* Two Stacks that share a prerequisite, with different durations.  One of  *)
(* them requires the other as well.                                         *)
EXTENDS Prerequisites

CONSTANTS base, app, site

MCStacks == {base, app, site}
MCRequires == [s \in MCStacks |-> CASE s = base -> <<>>
                                    [] s = app  -> <<base>>
                                    [] s = site -> <<base, app>>]
MCWithin == [s \in MCStacks |-> [p \in MCStacks |->
               CASE p # base -> 0 [] s = site -> 2 [] OTHER -> 1]]

=============================================================================
