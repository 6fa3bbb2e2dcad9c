---------------------------- MODULE RaceOracle ----------------------------
(***************************************************************************)
(* What a race detector promises for one address: it remembers every       *)
(* access and reports as soon as two of them conflict.  The detectors of   *)
(* tdebug-lib and spd3-lib remember a bounded part of them;                *)
(* AccessHistory relates the first to this specification.                  *)
(*                                                                         *)
(* The program is one of Programs, given by the Answers of its finished    *)
(* DPST and by its strands.  A strand is a stretch of one task between two *)
(* task operations; a step stands for one strand or for several, as a task *)
(* goes on in its old step when a root it started is done.  The strands    *)
(* access the address in any order in which no strand runs after one it    *)
(* precedes.                                                               *)
(***************************************************************************)
EXTENDS Integers, FiniteSets

CONSTANTS
    Programs,       \* the programs: [steps, par, lcaDepth] as of Dpst!Answers, the
                    \* step of each strand, the strands being numbered in the order
                    \* of one execution, the locksets held, a bound on the accesses
    AccessTypes     \* the access types considered, a subset of READ and WRITE

VARIABLES
    prog,           \* the program
    accesses,       \* the accesses performed: [strand, step, type, held]
    reported        \* whether a race has been reported for the address

oracleVars == <<prog, accesses, reported>>

-----------------------------------------------------------------------------
Accesses(p) ==
    {[strand |-> t, step |-> p.strands[t], type |-> y, held |-> h] :
        t \in DOMAIN p.strands, y \in AccessTypes, h \in p.locksets}

AreParallel(p, s, r) == <<s, r>> \in p.par

\* Two accesses race: one writes, no common lock, steps that may run in parallel.
Conflict(p, a, b) ==
    /\ "WRITE" \in {a.type, b.type}
    /\ a.held \cap b.held = {}
    /\ AreParallel(p, a.step, b.step)

Racy(p, S) == \E a, b \in S : Conflict(p, a, b)

\* Strand t may run after the accesses S: of two strands whose steps are not parallel
\* the lower one runs first.
MayFollow(p, S, t) ==
    \A b \in S : b.strand <= t \/ AreParallel(p, p.strands[t], b.step)

-----------------------------------------------------------------------------
Init ==
    /\ prog \in Programs
    /\ accesses = {}
    /\ reported = FALSE

\* One access.  Nothing is recorded for an address already reported.
Access(a) ==
    /\ ~reported
    /\ Cardinality(accesses) < prog.bound
    /\ MayFollow(prog, accesses, a.strand)
    /\ accesses' = accesses \cup {a}
    /\ reported' = Racy(prog, accesses')
    /\ UNCHANGED prog

Next == \E a \in Accesses(prog) : Access(a)

Spec == Init /\ [][Next]_oracleVars
=============================================================================
