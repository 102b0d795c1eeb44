--------------------------- MODULE LaunchOptions ---------------------------
(***************************************************************************)
(* A game's launch options: steamclient hands out the config section as    *)
(* binary key values, BinaryKV (utils/binarykv.cpp) turns it into JSON,    *)
(* App::GetLaunchOptions (interop/app.cpp) numbers the options it finds,   *)
(* and App::GetFilteredLaunchOptions keeps those that can run here.  The   *)
(* number is what LaunchApp is called with.                                *)
(*                                                                         *)
(* The data is read field by field: a field opens a section, has a value,  *)
(* or ends a section.  Keys are strings, and a JSON object lists its       *)
(* members in the order of the keys' bytes ("10" comes before "2").        *)
(*                                                                         *)
(* Definitions whose comment begins with "Without" or "Wrong" are variants *)
(* with a plausible bug.                                                   *)
(***************************************************************************)
EXTENDS Integers, Sequences, FiniteSets, SequencesExt, Subsequence

CONSTANTS KeyOrder,   \* the keys of launch options, in the order of their bytes
          Number,     \* the number each key stands for, NotANumber for a name
                      \* (which begins with no digit)
          OptionKinds, \* an option's requirements
          MaxFields   \* bound: fields read

NotANumber == -1

\* steamclient writes a number without leading zeros: the numbers up to nine are
\* one digit each, and their bytes are in the order of the numbers.
OneDigitKeys ==
    \A i, j \in DOMAIN KeyOrder :
        /\ Number[KeyOrder[i]] \in 0..9 /\ Number[KeyOrder[j]] \in 0..9
        /\ i < j
        => Number[KeyOrder[i]] < Number[KeyOrder[j]]

ASSUME LaunchOptionsAssumption ==
    /\ KeyOrder \in Seq(STRING) /\ IsInjective(KeyOrder)
    /\ Number \in [ToSet(KeyOrder) -> Nat \cup {NotANumber}]
    /\ OneDigitKeys
    /\ OptionKinds \subseteq [linux : BOOLEAN, realm : BOOLEAN, dlc : BOOLEAN, beta : BOOLEAN]
    /\ MaxFields \in Nat

VARIABLES protonTool,  \* App::IsProtonTool
          dlcInstalled, \* the downloadable content an option asks for is there
          betaActive,  \* the beta an option asks for is active
          fields,      \* how many fields were read
          parsing,     \* where ParseBinary is
          launch,      \* the object read for the launch section
          option,      \* the key of the option that is being read, "" between two
          launchJSON,  \* the launch section as BinaryKV leaves it
          working      \* GetFilteredLaunchOptions: the options a user can choose

launchVars == <<protonTool, dlcInstalled, betaActive, fields, parsing, launch, option,
                launchJSON, working>>

Keys == ToSet(KeyOrder)
NoObject == [k \in {} |-> k]
NoJSON == [kind |-> "none", members |-> <<>>]

LaunchInit ==
    /\ protonTool \in BOOLEAN /\ dlcInstalled \in BOOLEAN /\ betaActive \in BOOLEAN
    /\ fields = 0
    /\ parsing = "reading"
    /\ launch = NoObject
    /\ option = ""
    /\ launchJSON = NoJSON
    /\ working = {}

-----------------------------------------------------------------------------
(* ParseBinary *)

ReadsField == parsing = "reading" /\ fields < MaxFields /\ fields' = fields + 1

\* A section opens: an option, whose description, type and config follow.
ReadSection(k) ==
    /\ ReadsField
    /\ option = ""
    /\ option' = k
    /\ UNCHANGED <<protonTool, dlcInstalled, betaActive, parsing, launch, launchJSON, working>>

\* The option's fields, and its end: a key that comes again replaces.
ReadOption(kind) ==
    /\ ReadsField
    /\ option # ""
    /\ launch' = [k \in DOMAIN launch \cup {option} |-> IF k = option THEN kind ELSE launch[k]]
    /\ option' = ""
    /\ UNCHANGED <<protonTool, dlcInstalled, betaActive, parsing, launchJSON, working>>

\* items() of a JSON object.
KeysInOrder(object) == Picked(KeyOrder, {i \in DOMAIN KeyOrder : KeyOrder[i] \in DOMAIN object})

\* Without looking at all keys: a section is an array when its first key is 0.
SectionByFirstKey(object) ==
    LET order == KeysInOrder(object)
    IN  IF order = <<>> \/ Number[order[1]] = 0
        THEN [kind |-> "array", members |-> [i \in DOMAIN order |-> object[order[i]]]]
        ELSE [kind |-> "object", members |-> object]

\* A section that ended: an array of its values when every key is a number and
\* the first one is zero, an object otherwise.
SectionJSON(object) ==
    LET order == KeysInOrder(object)
        hasNonNumberKeys == \/ \E k \in DOMAIN object : Number[k] = NotANumber
                            \/ order # <<>> /\ Number[order[1]] # 0
    IN  IF hasNonNumberKeys
        THEN [kind |-> "object", members |-> object]
        ELSE [kind |-> "array", members |-> [i \in DOMAIN order |-> object[order[i]]]]

\* The launch section ends.
ReadEnd ==
    /\ ReadsField
    /\ option = ""
    /\ launchJSON' = SectionJSON(launch)
    /\ parsing' = "parsed"
    /\ UNCHANGED <<protonTool, dlcInstalled, betaActive, launch, option, working>>

\* The section has no end: the rest of the buffer is zeros, each the beginning of
\* a section inside the one before, until the stack or the buffer has no more.
DataRunsOut ==
    /\ parsing = "reading"
    /\ parsing' = "overrun"
    /\ UNCHANGED <<protonTool, dlcInstalled, betaActive, fields, launch, option, launchJSON, working>>

-----------------------------------------------------------------------------
(* App *)

\* GetLaunchOptions: items() of an array numbers its elements; a member of an
\* object has the number its key reads as, 0 for a name.
GetLaunchOptions(json) ==
    IF json.kind = "array"
    THEN {[index |-> i - 1, kind |-> json.members[i]] : i \in DOMAIN json.members}
    ELSE {[index |-> IF Number[k] = NotANumber THEN 0 ELSE Number[k], kind |-> json.members[k]] :
             k \in DOMAIN json.members}

\* What an option asks for and is not here: another system (unless Proton runs
\* it), another realm, content or a beta.
CanRun(kind) ==
    /\ protonTool \/ kind.linux
    /\ kind.realm
    /\ kind.dlc => dlcInstalled
    /\ kind.beta => betaActive

GetFilteredLaunchOptions ==
    /\ parsing = "parsed"
    /\ working' = {o \in GetLaunchOptions(launchJSON) : CanRun(o.kind)}
    /\ parsing' = "filtered"
    /\ UNCHANGED <<protonTool, dlcInstalled, betaActive, fields, launch, option, launchJSON>>

LaunchNext ==
    \/ \E k \in Keys : ReadSection(k)
    \/ \E kind \in OptionKinds : ReadOption(kind)
    \/ ReadEnd
    \/ DataRunsOut
    \/ GetFilteredLaunchOptions

LaunchSpec == LaunchInit /\ [][LaunchNext]_launchVars

-----------------------------------------------------------------------------
(* Properties *)

LaunchTypeOK ==
    /\ fields \in 0..MaxFields
    /\ parsing \in {"reading", "parsed", "filtered", "overrun"}
    /\ DOMAIN launch \subseteq Keys /\ \A k \in DOMAIN launch : launch[k] \in OptionKinds
    /\ option \in Keys \cup {""}
    /\ launchJSON.kind \in {"none", "array", "object"}
    /\ \A o \in working : o.index \in Nat /\ o.kind \in OptionKinds

\* The section's keys are 0, 1, ... without a gap, and not more than ten.
NumberedInOrder(object) ==
    /\ Cardinality(DOMAIN object) <= 10
    /\ {Number[k] : k \in DOMAIN object} = 0 .. Cardinality(DOMAIN object) - 1

\* A key that is a name, or no key that is zero: the section is no array.
KeptAsObject(object) ==
    \/ \E k \in DOMAIN object : Number[k] = NotANumber
    \/ \A k \in DOMAIN object : Number[k] # 0

\* The number LaunchApp gets is the number the option has in the data, although
\* the key has become a place in an array in between: so it is for options that
\* are numbered in order, and for those whose section stays an object.  (With a
\* gap, or with "10" sorted before "2", another option is launched;
\* binarykv.cpp:91.)
LaunchesByItsNumber ==
    parsing = "filtered" /\ (NumberedInOrder(launch) \/ KeptAsObject(launch)) =>
        working = {[index |-> IF Number[k] = NotANumber THEN 0 ELSE Number[k], kind |-> launch[k]] :
                      k \in {j \in DOMAIN launch : CanRun(launch[j])}}
=============================================================================
