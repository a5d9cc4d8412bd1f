---------------------------- MODULE CompilerTalk ----------------------------
(***************************************************************************)
(* What compiling scripts from the editor promises, as if the compiler     *)
(* spoke to the editor face to face: it says nothing more before its last  *)
(* message has been heard, with the severity it has (how ReadConsole then  *)
(* prints it is not part of the promise); it gives its verdict when all    *)
(* have been heard; and the editor comes back with that verdict.  Or the   *)
(* editor, which cannot open tmp3, does not listen, and comes back without *)
(* one.                                                                    *)
(*                                                                         *)
(* There are no pipes and no files here, and nobody crashes: that one of   *)
(* the two may be silent for ever is not excluded.                         *)
(***************************************************************************)
EXTENDS Sequences

CONSTANTS Severities, Results

VARIABLES
  asking,   \* is a compilation under way?
  said,     \* the messages of the compiler: their severities
  heard,    \* the messages that ReadConsole was given, and with what severity
  verdict,  \* "none" before the compiler has come to one
  answer    \* what the editor takes for it: "none" yet, or "lost"

vars == <<asking, said, heard, verdict, answer>>

Init ==
  /\ asking = FALSE
  /\ said = <<>> /\ heard = <<>>
  /\ verdict = "none" /\ answer = "none"

Ask ==
  /\ ~asking
  /\ asking' = TRUE
  /\ said' = <<>> /\ heard' = <<>>
  /\ verdict' = "none" /\ answer' = "none"

Talking == asking /\ answer = "none" /\ verdict = "none"

Say(severity) ==
  /\ Talking /\ heard = said
  /\ said' = Append(said, severity)
  /\ UNCHANGED <<asking, heard, verdict, answer>>

Hear ==
  /\ Talking /\ heard # said
  /\ heard' = said
  /\ UNCHANGED <<asking, said, verdict, answer>>

Conclude(result) ==
  /\ Talking /\ heard = said /\ said # <<>>
  /\ verdict' = result
  /\ UNCHANGED <<asking, said, heard, answer>>

Learn ==
  /\ asking /\ answer = "none" /\ verdict # "none"
  /\ answer' = verdict
  /\ UNCHANGED <<asking, said, heard, verdict>>

\* Without tmp3 the first message is taken for the answer.
Miss ==
  /\ Talking /\ heard = <<>> /\ Len(said) = 1
  /\ answer' = "lost"
  /\ UNCHANGED <<asking, said, heard, verdict>>

Return ==
  /\ asking /\ answer # "none"
  /\ asking' = FALSE
  /\ UNCHANGED <<said, heard, verdict, answer>>

Next ==
  \/ Ask
  \/ \E severity \in Severities : Say(severity)
  \/ Hear
  \/ \E result \in Results : Conclude(result)
  \/ Learn
  \/ Miss
  \/ Return

Spec == Init /\ [][Next]_vars
=============================================================================
