------------------------------ MODULE LoadOrder ------------------------------
(***************************************************************************)
(* pz/loadorder.go: SortLoadOrder puts a server's mods in an order that      *)
(* keeps every declared rule, Kahn's algorithm with the earliest of the      *)
(* operator's own list first.  The result is saved as the new list and       *)
(* sorted again whenever the operator asks: rounds are those sorts.          *)
(***************************************************************************)
EXTENDS Naturals, Sequences, SequencesExt, FiniteSets

CONSTANTS ModIDs,       \* lower case, as the code compares them
          Spellings,    \* of an ID in the list
          Lists,        \* the operator's lists: of <<mod, spelling>>
          Infos,        \* what mod.info files say: [ModIDs -> Rules]
          RuleFiles,    \* sorting_rules.txt: sequences of lines
          Rounds        \* bound: sorts

VARIABLES list,         \* the order given
          info, extra,  \* rules by mod, of mod.info and the community's file
          waits,        \* indegree: what each mod not placed yet waits for
          sorted,       \* placed so far
          phase,        \* "start", "placing" or "done"
          round,
          report        \* the issues, by kind

orderVars == <<list, info, extra, waits, sorted, phase, round, report>>

Rules == [require : SUBSET ModIDs, after : SUBSET ModIDs, before : SUBSET ModIDs,
          incompatible : SUBSET ModIDs, first : BOOLEAN, last : BOOLEAN]
NoRules == [require |-> {}, after |-> {}, before |-> {}, incompatible |-> {},
            first |-> FALSE, last |-> FALSE]

\* A line of the community's file, its value parsed.
IsRuleLine(x) ==
    \/ x.key = "section" /\ x.of \in ModIDs
    \/ x.key \in {"require", "after", "before", "incompatible"} /\ x.of \subseteq ModIDs
    \/ x.key \in {"first", "last"} /\ x.of \in BOOLEAN

ASSUME OrderAssumption ==
    /\ Lists \subseteq Seq(ModIDs \X Spellings) /\ Infos \subseteq [ModIDs -> Rules]
    /\ \A f \in RuleFiles : /\ Len(f) \in Nat /\ DOMAIN f = 1..Len(f)
                            /\ \A k \in DOMAIN f : IsRuleLine(f[k])
    /\ Rounds \in Nat \ {0}

(***************************************************************************)
(* LoadSortingRules                                                         *)
(***************************************************************************)

\* Lines are a mod in brackets or a key with its value; comments and unknown
\* keys say nothing.
Section(m) == [key |-> "section", of |-> m]
Says(k, v) == [key |-> k, of |-> v]

\* A line is about the mod of the last section before it, if there is one.
\* Lists add up, the last loadFirst counts.
LoadSortingRules(lines) ==
    LET Sections(k) == {s \in 1..k - 1 : lines[s].key = "section"}
        Said(m, key) == {k \in DOMAIN lines : /\ lines[k].key = key /\ Sections(k) # {}
                                               /\ lines[Max(Sections(k))].of = m}
        Listed(m, key) == UNION {lines[k].of : k \in Said(m, key)}
        IsOn(m, key) == Said(m, key) # {} /\ lines[Max(Said(m, key))].of
    IN [m \in ModIDs |->
          [require |-> Listed(m, "require"), after |-> Listed(m, "after"),
           before |-> Listed(m, "before"), incompatible |-> Listed(m, "incompatible"),
           first |-> IsOn(m, "first"), last |-> IsOn(m, "last")]]

\* rulesFor: both sources together.
RulesFor(m) ==
    LET a == info[m]  b == extra[m]
    IN [require |-> a.require \cup b.require, after |-> a.after \cup b.after,
        before |-> a.before \cup b.before,
        incompatible |-> a.incompatible \cup b.incompatible,
        first |-> a.first \/ b.first, last |-> a.last \/ b.last]

(***************************************************************************)
(* The graph                                                                *)
(***************************************************************************)

Present == {e[1] : e \in ToSet(list)}

\* A mod listed twice keeps its first place, and its first spelling.
Position(m) == Min({k \in DOMAIN list : list[k][1] = m})
Canonical(m) == list[Position(m)]

\* Mutant: what loads last is not held back by the rules of others.
EdgesWithoutLast ==
    {e \in Present \X Present : LET a == e[1]  b == e[2] IN
        /\ a # b
        /\ \/ a \in RulesFor(b).require \cup RulesFor(b).after
           \/ b \in RulesFor(a).before
           \/ RulesFor(a).first}

\* addEdge: an edge leads from what loads first; none to itself or to a mod
\* that is not in the list.
Edges ==
    {e \in Present \X Present : LET a == e[1]  b == e[2] IN
        /\ a # b
        /\ \/ a \in RulesFor(b).require \cup RulesFor(b).after
           \/ b \in RulesFor(a).before
           \/ RulesFor(a).first
           \/ RulesFor(b).last}

Issues(kind) ==
    CASE kind = "duplicate" -> {list[k] : k \in {j \in DOMAIN list : Position(list[j][1]) < j}}
      [] kind = "missing" -> UNION {{<<m, r>> : r \in RulesFor(m).require \ Present} : m \in Present}
      [] kind = "incompatible" ->
            UNION {{<<m, r>> : r \in RulesFor(m).incompatible \cap Present} : m \in Present}

(***************************************************************************)
(* SortLoadOrder                                                            *)
(***************************************************************************)

NoReport == [duplicate |-> {}, missing |-> {}, incompatible |-> {}, cycle |-> {}, changed |-> FALSE]

OrderInit ==
    /\ list \in Lists /\ info \in Infos
    /\ extra \in {LoadSortingRules(f) : f \in RuleFiles}
    /\ waits = << >> /\ sorted = << >>
    /\ phase = "start" /\ round = 1 /\ report = NoReport

SortBegins ==
    /\ phase = "start"
    /\ waits' = [m \in Present |-> Cardinality({e \in Edges : e[2] = m})]
    /\ sorted' = << >>
    /\ report' = [k \in DOMAIN NoReport |->
                    IF k \in {"duplicate", "missing", "incompatible"} THEN Issues(k) ELSE NoReport[k]]
    /\ phase' = "placing"
    /\ UNCHANGED <<list, info, extra, round>>

ReadyMods == {m \in DOMAIN waits : waits[m] = 0}

\* Mutant: any mod that is ready.
AnyReady == CHOOSE m \in ReadyMods : TRUE

\* The one that came earliest in the operator's list.
EarliestReady == CHOOSE m \in ReadyMods : \A o \in ReadyMods : Position(m) <= Position(o)

Place ==
    /\ phase = "placing" /\ ReadyMods # {}
    /\ LET m == EarliestReady
       IN /\ sorted' = Append(sorted, Canonical(m))
          /\ waits' = [o \in DOMAIN waits \ {m} |->
                          waits[o] - (IF <<m, o>> \in Edges THEN 1 ELSE 0)]
    /\ UNCHANGED <<list, info, extra, phase, round, report>>

\* Mutant: what is left over is dropped.
LeavesOut == << >>

\* What is left over follows in its current order.
Stuck == {Position(m) : m \in DOMAIN waits}
LeftOver == [k \in 1..Cardinality(Stuck) |->
                list[CHOOSE n \in Stuck : Cardinality({o \in Stuck : o <= n}) = k]]

SortEnds ==
    /\ phase = "placing" /\ ReadyMods = {}
    /\ sorted' = sorted \o LeftOver
    /\ report' = [report EXCEPT !.cycle = DOMAIN waits, !.changed = sorted' # list]
    /\ phase' = "done"
    /\ UNCHANGED <<list, info, extra, waits, round>>

\* The page saves the result; later it is sorted again.
SortsAgain ==
    /\ phase = "done" /\ round < Rounds
    /\ list' = sorted
    /\ round' = round + 1
    /\ phase' = "start"
    /\ UNCHANGED <<info, extra, waits, sorted, report>>

OrderNext == SortBegins \/ Place \/ SortEnds \/ SortsAgain

OrderSpec == OrderInit /\ [][OrderNext]_orderVars

(***************************************************************************)
(* Properties                                                               *)
(***************************************************************************)

OrderTypeOK ==
    /\ list \in Seq(ModIDs \X Spellings) /\ sorted \in Seq(ModIDs \X Spellings)
    /\ info \in [ModIDs -> Rules] /\ extra \in [ModIDs -> Rules]
    /\ DOMAIN waits \subseteq ModIDs /\ \A m \in DOMAIN waits : waits[m] \in Nat
    /\ phase \in {"start", "placing", "done"} /\ round \in 1..Rounds
    /\ DOMAIN report = DOMAIN NoReport

Precedes(a, b) ==
    /\ {a, b} \subseteq Present /\ a # b
    /\ \/ a \in RulesFor(b).require \cup RulesFor(b).after \/ b \in RulesFor(a).before
       \/ RulesFor(a).first \/ RulesFor(b).last

\* Mods that wait for each other, and those that wait for one of them: what a
\* walk back along the rules need never end in.
Endless == UNION {s \in SUBSET Present : \A b \in s : \E a \in s : Precedes(a, b)}

PlaceOf(m) == CHOOSE k \in DOMAIN sorted : sorted[k][1] = m

\* "reordered so every declared dependency comes first", "nothing is dropped"
\* (loadorder.go:45): the result holds every mod once, in its first spelling,
\* and keeps every rule between mods outside a loop, whoever declared it and
\* wherever the loop is; whatever a loop holds up comes last, and is reported.
SortedByTheRules ==
    phase = "done" =>
        /\ Len(sorted) = Cardinality(Present)
        /\ ToSet(sorted) = {Canonical(m) : m \in Present}
        /\ \A a \in Present, b \in Present \ Endless :
              Precedes(a, b) => PlaceOf(a) < PlaceOf(b)
        /\ \A m \in Present \ Endless : \A o \in Endless : PlaceOf(m) < PlaceOf(o)
        /\ report.cycle = Endless

Keeps(s) == \A k, m \in DOMAIN s : k < m => ~Precedes(s[m][1], s[k][1])

\* "an unconstrained list is left exactly as it was" (loadorder.go:170): a list
\* without duplicates that keeps the rules is left alone, and a second sort has
\* nothing to change, with or without a loop.
SortIsSettled ==
    phase = "done" /\ ((Keeps(list) /\ Len(list) = Cardinality(Present)) \/ round > 1) =>
        sorted = list /\ ~report.changed
=============================================================================
