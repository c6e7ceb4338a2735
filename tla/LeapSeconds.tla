---------------------------- MODULE LeapSeconds ----------------------------
(***************************************************************************)
(* The process-wide registry of leap seconds (time/leapsecond.go).  A      *)
(* table is a sequence of entries [day, dat]: from that day on, TAI-UTC is *)
(* dat.  Calendar dates are days counted from 1; Record stands for the     *)
(* table compiled into gofa, whose Dat is external.                        *)
(***************************************************************************)
EXTENDS Integers, Sequences

CONSTANTS
    Record,       \* gofa's entries, in ascending order
    Days,         \* the dates that matter
    Dats,         \* the values a table may hold
    MaxEntries,   \* bound on the length of a registered table
    BuiltIn       \* leapRegistry's nil: no table registered

VARIABLES
    registry,     \* leapRegistry
    answer        \* what the last RegisterLeapSeconds returned

vars == <<registry, answer>>

Entry == [day : Days, dat : Dats]
Tables == UNION {[1 .. k -> Entry] : k \in 0 .. MaxEntries}

\* The entries of a table in force on a day.
Begun(table, d) == {k \in 1 .. Len(table) : table[k].day <= d}

LastBegun(table, d) == CHOOSE k \in Begun(table, d) : \A j \in Begun(table, d) : j <= k

\* gofa's Dat: zero stands for what it says before its first entry.
Dat(d) == IF Begun(Record, d) = {} THEN 0 ELSE Record[LastBegun(Record, d)].dat

\* The last day on which gofa's answer steps, found by asking it.
BuiltinLastStep ==
    CHOOSE d \in Days : /\ Dat(d) # Dat(d - 1)
                        /\ \A e \in Days : Dat(e) # Dat(e - 1) => e <= d

\* deltaATIn: the loop stops at the first entry after the day; before the
\* table's first entry gofa answers.
DeltaATIn(table, d) ==
    IF Begun(table, d) = {} THEN Dat(d) ELSE table[LastBegun(table, d)].dat

\* deltaAT
DeltaAT(d) == IF registry = BuiltIn THEN Dat(d) ELSE DeltaATIn(registry, d)

\* validateLeapTable: not empty, in ascending order, steps of one second.
WellFormed(table) ==
    /\ Len(table) > 0
    /\ \A k \in 2 .. Len(table) :
          /\ table[k].day > table[k - 1].day
          /\ table[k].dat - table[k - 1].dat \in {-1, 1}

\* checkAgainstBuiltin: each entry up to the built-in record's last step says
\* what the record says on that day.
AgreesWithBuiltin(table) ==
    \A k \in 1 .. Len(table) :
        table[k].day <= BuiltinLastStep => table[k].dat = Dat(table[k].day)

Init == registry = BuiltIn /\ answer = "ok"

\* RegisterLeapSeconds: both checks, then one store of the whole table.
Register(table) ==
    /\ WellFormed(table) /\ AgreesWithBuiltin(table)
    /\ registry' = table
    /\ answer' = "ok"

\* ErrLeapSecondOrder, which is checked first.
RefuseOrder(table) ==
    /\ ~WellFormed(table)
    /\ answer' = "order"
    /\ UNCHANGED registry

\* ErrLeapSecondConflict
RefuseConflict(table) ==
    /\ WellFormed(table) /\ ~AgreesWithBuiltin(table)
    /\ answer' = "conflict"
    /\ UNCHANGED registry

ResetLeapSeconds ==
    /\ registry' = BuiltIn
    /\ UNCHANGED answer

Next ==
    \/ \E table \in Tables : Register(table) \/ RefuseOrder(table) \/ RefuseConflict(table)
    \/ ResetLeapSeconds

Spec == Init /\ [][Next]_vars
-----------------------------------------------------------------------------
\* A registration changes no epoch up to the built-in record's last step,
\* whichever table it installs: leapsecond.go says that both tables "agree
\* below the built-in record's last step, because registration refuses a table
\* that disagrees there", and that every earlier epoch is unaffected.
PastUnaffected ==
    \A d \in Days : d <= BuiltinLastStep => DeltaAT(d) = Dat(d)
=============================================================================
