--------------------------- MODULE EngineRegistry ---------------------------
(***************************************************************************)
(* The engines of the Lua states that have opened the module.  Engine keeps *)
(* them in two static vectors, S_States and S_Engines, which Init extends   *)
(* together.  Shutdown erases from S_Engines only, and GetEngineByState     *)
(* uses the index of a state in S_States as an index in S_Engines, which can *)
(* lie behind its end.  That read is undefined; the builds give it the memory *)
(* of the vector, where an erase leaves the last pointer in its old place.   *)
(*                                                                         *)
(* A state is its address: a state that is made later can have the address *)
(* of one that was closed.  Engines are numbered, so that no engine has the *)
(* number of a deleted one.                                                *)
(***************************************************************************)
EXTENDS Integers, Sequences, SequencesExt

CONSTANTS
    States,         \* the addresses of Lua states
    MaxOpens        \* bound: how often the module is opened

ASSUME OpensAssumption == MaxOpens \in Nat

VARIABLES
    S_States,       \* Engine::S_States
    S_Engines,      \* Engine::S_Engines
    behind,         \* what its memory still holds behind its end
    engineOf,       \* the engine made for each state, 0 if it is not open
    engines,        \* the engines that have not been deleted
    opens,          \* how often the module was opened; numbers the engines
    opened,         \* history: the open states in the order of their opening
    orderly         \* history: see OpensInOrder

registry == <<S_States, S_Engines, behind, engineOf, engines, opens, opened,
              orderly>>

\* What GetEngineByState may return besides a pointer to an engine that is or
\* was: nullptr, and whatever memory that no engine was ever put in has.
NullEngine == 0
Unknown == -1

RegistryInit ==
    /\ S_States = <<>> /\ S_Engines = <<>> /\ behind = <<>>
    /\ engineOf = [s \in States |-> NullEngine]
    /\ engines = {} /\ opens = 0
    /\ opened = <<>> /\ orderly = TRUE

\* The index that a loop from the front finds x at, 0 if it does not.
Find(seq, x) == SelectInSeq(seq, LAMBDA y : y = x)

\* S_Engines[i - 1], which nothing checks against the end of the vector.
EngineAt(i) ==
    LET memory == S_Engines \o behind
    IN IF i = 0 THEN NullEngine
       ELSE IF i <= Len(memory) THEN memory[i] ELSE Unknown

\* Mutant: the loop runs on to the last entry of the state.
LookupLast(s) == EngineAt(SelectLastInSeq(S_States, LAMBDA y : y = s))

\* Engine::GetEngineByState
GetEngineByState(s) == EngineAt(Find(S_States, s))

\* The order of life in which the two vectors stay in step: states close in the
\* reverse order of opening, and those that open after one has closed have the
\* addresses of the first ones, in the same order.
OpensInOrder(s) ==
    IF opens = Len(S_Engines) THEN ~Contains(S_States, s)
    ELSE Len(opened) < Len(S_States) /\ s = S_States[Len(opened) + 1]

\* GMOD_MODULE_OPEN and Engine::Init
Open(s) ==
    /\ engineOf[s] = NullEngine /\ opens < MaxOpens
    /\ opens' = opens + 1
    /\ engines' = engines \union {opens'}
    /\ S_Engines' = Append(S_Engines, opens')
    /\ behind' = IF behind = <<>> THEN <<>> ELSE Tail(behind)
    /\ S_States' = Append(S_States, s)
    /\ engineOf' = [engineOf EXCEPT ![s] = opens']
    /\ opened' = Append(opened, s)
    /\ orderly' = (orderly /\ OpensInOrder(s))

\* GMOD_MODULE_CLOSE and Engine::Shutdown: of the engine found, which need not
\* be the one of the state.  If none is found, or one that has been deleted, the
\* call is undefined, and the process is lost: there is no step.  The erase moves
\* the engines after e up, and the last one stays where it was as well.
Close(s) ==
    LET e == GetEngineByState(s)
    IN /\ engineOf[s] # NullEngine /\ e \in engines
       /\ S_Engines' = RemoveFirst(S_Engines, e)
       /\ behind' = <<Last(S_Engines)>> \o behind
       /\ engines' = engines \ {e}
       /\ engineOf' = [engineOf EXCEPT ![s] = NullEngine]
       /\ opened' = RemoveFirst(opened, s)
       /\ orderly' = (orderly /\ Last(opened) = s)
       /\ UNCHANGED <<S_States, opens>>

RegistryNext == \E s \in States : Open(s) \/ Close(s)

RegistrySpec == RegistryInit /\ [][RegistryNext]_registry

-----------------------------------------------------------------------------
(* Properties.                                                              *)

\* GetEngineByState finds the engine made for the state, for every state that
\* is open, as long as the states have opened and closed in order: although
\* Shutdown leaves its state in S_States, the entries that are left over then
\* stand behind all that are looked for, or for the state that comes back.  In
\* other orders an open state can find the engine of another one, one that has
\* been deleted, or none; and so can, in any order, one that has closed.
OwnEngine ==
    orderly => \A s \in States :
                 engineOf[s] # NullEngine => GetEngineByState(s) = engineOf[s]
=============================================================================
