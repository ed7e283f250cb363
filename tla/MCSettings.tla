----------------------------- MODULE MCSettings -----------------------------
(* An instance of Settings for TLC: the first file and the texts typed. *)
EXTENDS Settings

CONSTANTS n1, a1, sp

MCTexts == {"welcome", "goodbye"}
MCWord == {"ftpd", "=", ".", "word", sp} \cup Texts
MCTyped ==
  {<<>>,
   <<<<>>, <<"goodbye">>, <<"word", sp>>, <<sp>>, <<"word">>>>,
   <<<<"word">>, <<sp>>, <<"goodbye">>, <<"word">>>>}
MCStarted ==
  [p \in Pages |->
     CASE p = "users" -> <<[name |-> n1, access |-> 1, sessions |-> 1]>>
       [] p = "paths" -> <<[alias |-> a1, read |-> 1, write |-> 0, delete |-> 0, subdirs |-> 1]>>
       [] p = "general" -> 1
       [] OTHER -> <<<<"word">>>>]
=============================================================================
