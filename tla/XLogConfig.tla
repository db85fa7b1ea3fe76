----------------------------- MODULE XLogConfig -----------------------------
(***************************************************************************)
(* go-xlog/xconfig.go: the size and the age of a logger's files, exported   *)
(* in readable form and imported again.  A readable value is a number and   *)
(* the place of its unit; a number is an int, of which the runs use 31 bits.*)
(***************************************************************************)
EXTENDS Integers, FiniteSetsExt

CONSTANTS Sizes,  \* values of MaxSize, in bytes
          Ages    \* values of MaxAge, in seconds

ASSUME ConfigAssumption == Sizes \subseteq Nat \ {0} /\ Ages \subseteq Nat \ {0}

VARIABLES size, age,   \* XConfig.MaxSize, XConfig.MaxAge
          size0, age0  \* history: what they were first set to

configVars == <<size, age, size0, age0>>

\* GB, MB, KB and B; year, month, week, day, hour and min.
sizes == <<1024 * 1024 * 1024, 1024 * 1024, 1024, 1>>
hour2min == 60
day2min == 24 * hour2min
ages == <<366 * day2min, 31 * day2min, 7 * day2min, day2min, hour2min, 1>>

\* Mutant of rough: ten percent may be lost.
roughTen(r, value) == r <= (value - 1) \div 10

\* 100 * r < value, written so that no product leaves 31 bits.
rough(r, value) == r <= (value - 1) \div 100

\* readableMaxSize and readableMaxAge: the first unit that loses little.
readable(units, value) ==
    LET i == Min({i \in DOMAIN units : rough(value % units[i], value)})
    IN [number |-> value \div units[i], unit |-> i]

\* parseMaxSize and parseMaxAge, on what matches their expressions.
parse(units, text) == text.number * units[text.unit]

\* An age is cut to minutes, and none is exported below one.
exportAge(a) == IF a \div 60 = 0 THEN {} ELSE {readable(ages, a \div 60)}

ConfigInit == size = 0 /\ age = 0 /\ size0 = 0 /\ age0 = 0

\* The fields are set, once in a behaviour.
Configure == /\ size = 0
             /\ size' \in Sizes /\ size0' = size'
             /\ age' \in Ages /\ age0' = age'

\* Export to a map and Import of that map: a key that is absent leaves its
\* field alone.
Cycle == /\ size > 0
         /\ size' = parse(sizes, readable(sizes, size))
         /\ age' = IF exportAge(age) = {} THEN age
                   ELSE 60 * parse(ages, CHOOSE t \in exportAge(age) : TRUE)
         /\ UNCHANGED <<size0, age0>>

ConfigNext == Configure \/ Cycle

ConfigSpec == ConfigInit /\ [][ConfigNext]_configVars

-----------------------------------------------------------------------------
(* Properties.                                                              *)

\* However often a configuration is exported and imported, little is lost:
\* two percent of the size, and three of the age but for its seconds.  (One
\* conversion loses less than one, says the comment before readableMaxSize;
\* each unit that a value comes to is another one.)
ExportKeeps ==
    /\ size <= size0 /\ size0 - size <= size0 \div 50
    /\ age <= age0 /\ age0 - age <= 3 * (age0 \div 100) + 60

=============================================================================
