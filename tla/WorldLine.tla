----------------------------- MODULE WorldLine -----------------------------
(***************************************************************************)
(* What a world instance promises its players: a single line of committed  *)
(* steps that only grows, and intents that are never forgotten once        *)
(* accepted and enter the line at most once.                               *)
(***************************************************************************)
EXTENDS Naturals, Sequences

CONSTANT Intents

VARIABLES
  accepted,  \* the intents the host has persisted
  line       \* line[n]: the intents executed by the step to revision n

lineVars == <<accepted, line>>

Executed == UNION {line[n] : n \in DOMAIN line}

LineInit == accepted = {} /\ line = <<>>

Accept(i) ==
  /\ i \notin accepted
  /\ accepted' = accepted \cup {i}
  /\ UNCHANGED line

Commit(S) ==
  /\ S \subseteq accepted \ Executed
  /\ line' = Append(line, S)
  /\ UNCHANGED accepted

LineNext == (\E i \in Intents : Accept(i)) \/ (\E S \in SUBSET accepted : Commit(S))

LineSpec == LineInit /\ [][LineNext]_lineVars
=============================================================================
