---------------------------- MODULE SitterConfig ----------------------------
(***************************************************************************)
(* How main() of hanasitter.py arrives at its settings: the defaults, the  *)
(* configuration file of -ff line by line, the command line, and the       *)
(* checks, in the order of the code.                                       *)
(*                                                                         *)
(* A program that does not start is "rejected" if it says why (os._exit)   *)
(* and "crashed" if a Python exception ends it, "unavailable" if that is   *)
(* because HANA is down.  The discovery of the landscape between the       *)
(* reading and the checks is module Topology; this module leaves its       *)
(* result open (Discover), and Startup joins the two.  Every flag has its  *)
(* argument, and the file of -ff can be read.                              *)
(***************************************************************************)
EXTENDS Integers, Sequences

CONSTANTS
    Texts,   \* the texts that occur as items of settings
    IntOf,   \* int(), a function on the texts that is_integer() accepts
    Emails,  \* the texts that is_email() accepts
    Limits,  \* the limits CriticalFeature accepts: n, <n or >n
    Keys,    \* the keys hdbuserstore knows
    Files,   \* the configuration files considered
    Lines    \* the command lines considered

IntFlags == {"-oi", "-pt", "-ci", "-rm", "-nr", "-ir", "-mr", "-nc", "-ic", "-ng", "-ig",
             "-np", "-ip", "-dp", "-wp", "-tf", "-ar", "-odr", "-olr"}
BoolFlags == {"-hm", "-lf", "-so", "-ssl", "-hc"}
ListFlags == {"-rp", "-cpu", "-cf", "-ks", "-if", "-en"}
TextFlags == {"-od", "-ol", "-ens", "-enm", "-vlh", "-k"}
Flags == IntFlags \cup BoolFlags \cup ListFlags \cup TextFlags
HelpFlags == {"-h", "--help", "-d", "--disclaimer"}
Accepted == Flags \cup HelpFlags \cup {"-ff", "-cd"}

\* A setting is the list of its items; a flag that is no list has one, and
\* an empty list stands for [], None and "".
Defaults ==
    [f \in Flags |->
        CASE f = "-oi" -> <<"3600">>
          [] f \in {"-pt", "-ci", "-ir", "-ic", "-ig", "-ip", "-dp", "-tf"} -> <<"60">>
          [] f = "-rm" -> <<"1">>
          [] f = "-rp" -> <<"1", "2", "3", "4">>
          [] f \in {"-nr", "-mr", "-nc", "-ng", "-np", "-wp"} -> <<"0">>
          [] f \in {"-ar", "-odr", "-olr"} -> <<"-1">>
          [] f \in {"-hm", "-lf", "-ssl"} -> <<"false">>
          [] f \in {"-so", "-hc"} -> <<"true">>
          [] f = "-cpu" -> <<"0", "0", "0", "100">>
          [] f = "-k" -> <<"SYSTEMKEY">>
          [] f \in {"-od", "-ol"} -> <<"/tmp/hanasitter_output">>
          [] OTHER -> <<>>]

\* One flag with its argument: the items, several for a list only, and the
\* character between them.
EntryType ==
    {e \in [flag: STRING, items: Seq(Texts) \ {<<>>}, sep: {",", ";"}] :
        e.flag \in ListFlags \/ Len(e.items) = 1}

ASSUME ConfigAssumption ==
    /\ Texts \subseteq STRING
    /\ {"0", "1", "2", "3", "4", "60", "100", "3600", "-1", "true", "false", "SYSTEMKEY",
        "/tmp/hanasitter_output", "unsplit"} \subseteq Texts
    /\ IntOf \in [DOMAIN IntOf -> Int]
    /\ {"0", "1", "2", "3", "4", "60", "100", "3600", "-1"} \subseteq DOMAIN IntOf
    /\ IntOf["0"] = 0 /\ IntOf["1"] = 1 /\ IntOf["2"] = 2 /\ IntOf["3"] = 3 /\ IntOf["4"] = 4
    /\ "" \notin DOMAIN IntOf
    /\ Files \subseteq Seq(EntryType)
    /\ Lines \subseteq Seq(EntryType)

VARIABLES
    file, cli,   \* the inputs: the configuration file, the command line
    value,       \* the settings
    source,      \* where a setting comes from
    delimiter,   \* cf_deliminiter_mode
    next,        \* the next line of the file
    scaleOut,    \* more than one worker or standby host
    pc

inputs == <<file, cli>>
settings == <<value, source>>
configVars == <<inputs, settings, delimiter, next, scaleOut, pc>>

Stages == {"arguments", "file", "cli", "hostcheck", "discover", "switches", "times", "prio",
           "hostmode", "counts", "features", "cpu", "purpose", "announce", "loop"}

ConfigInit ==
    /\ file \in Files /\ cli \in Lines
    /\ value = Defaults
    /\ source = [f \in Flags |-> "default"]
    /\ delimiter = "1" /\ next = 1
    /\ scaleOut = FALSE
    /\ pc = "arguments"

----------------------------------------------------------------------------
(* Reading. *)

GivenOnCli(f) == \E k \in DOMAIN cli : cli[k].flag = f

\* sys.argv.index(f): the first of several.
OnCli(f) == cli[CHOOSE k \in DOMAIN cli : /\ cli[k].flag = f
                                          /\ \A j \in 1 .. k - 1 : cli[j].flag # f]

\* An argument that is divided by the other character stays in one piece.
Split(entry, mode) ==
    LET sep == IF entry.flag = "-cf" /\ mode = "2" THEN ";" ELSE ","
    IN  IF Len(entry.items) = 1 \/ entry.sep = sep THEN entry.items ELSE <<"unsplit">>

\* Mutant: the file is read without -ff as well.
ReadArguments_AlwaysFile ==
    /\ pc = "arguments"
    /\ pc' = IF cli = <<>> \/ \E f \in HelpFlags : GivenOnCli(f) THEN "rejected" ELSE "file"
    /\ UNCHANGED <<inputs, settings, delimiter, next, scaleOut>>

ReadArguments ==
    /\ pc = "arguments"
    /\ pc' = IF cli = <<>> \/ \E f \in HelpFlags : GivenOnCli(f) THEN "rejected"
             ELSE IF GivenOnCli("-ff") THEN "file" ELSE "cli"
    /\ UNCHANGED <<inputs, settings, delimiter, next, scaleOut>>

\* Mutant: the first of several lines for a flag counts.
ReadLine_FirstWins ==
    /\ pc = "file" /\ next <= Len(file)
    /\ LET entry == file[next] IN
          /\ entry.flag \in Accepted
          /\ delimiter' = IF entry.flag = "-cd" THEN entry.items[1] ELSE "1"
          /\ IF entry.flag \in Flags /\ source[entry.flag] = "default"
             THEN /\ value' = [value EXCEPT ![entry.flag] = Split(entry, delimiter')]
                  /\ source' = [source EXCEPT ![entry.flag] = "file"]
             ELSE UNCHANGED settings
    /\ next' = next + 1
    /\ UNCHANGED <<inputs, scaleOut, pc>>

\* Each line with a flag sets the delimiter to its default before it looks
\* at -cd and -cf.
ReadLine ==
    /\ pc = "file" /\ next <= Len(file)
    /\ LET entry == file[next] IN
          /\ entry.flag \in Accepted
          /\ delimiter' = IF entry.flag = "-cd" THEN entry.items[1] ELSE "1"
          /\ IF entry.flag \in Flags
             THEN /\ value' = [value EXCEPT ![entry.flag] = Split(entry, delimiter')]
                  /\ source' = [source EXCEPT ![entry.flag] = "file"]
             ELSE UNCHANGED settings
    /\ next' = next + 1
    /\ UNCHANGED <<inputs, scaleOut, pc>>

FileEnds ==
    /\ pc = "file"
    /\ \/ next > Len(file) /\ pc' = "cli"
       \/ next <= Len(file) /\ file[next].flag \notin Accepted /\ pc' = "rejected"
    /\ UNCHANGED <<inputs, settings, delimiter, next, scaleOut>>

\* Every word that starts with a dash has to be a flag, so has -1.
Dashed(entry) == entry.items[1] \in DOMAIN IntOf /\ IntOf[entry.items[1]] < 0

CliRejected == \E k \in DOMAIN cli : cli[k].flag \notin Accepted \/ Dashed(cli[k])

\* -so and -hc go through int().
IntSwitches == {"-so", "-hc"}
CliCrashes == \E f \in IntSwitches : GivenOnCli(f) /\ OnCli(f).items[1] \notin DOMAIN IntOf

CliDelimiter == IF GivenOnCli("-cd") THEN OnCli("-cd").items[1] ELSE "1"

CliValue(f) ==
    LET split == Split(OnCli(f), CliDelimiter)
    IN  IF f = "-cf" /\ split = <<"">> THEN <<>> ELSE split

ReadCommandLine ==
    /\ pc = "cli" /\ ~CliRejected /\ ~CliCrashes
    /\ value' = [f \in Flags |-> IF GivenOnCli(f) THEN CliValue(f) ELSE value[f]]
    /\ source' = [f \in Flags |-> IF GivenOnCli(f) THEN "cli" ELSE source[f]]
    /\ delimiter' = CliDelimiter
    /\ pc' = "hostcheck"
    /\ UNCHANGED <<inputs, next, scaleOut>>

CommandLineFails ==
    /\ pc = "cli"
    /\ \/ CliRejected /\ pc' = "rejected"
       \/ ~CliRejected /\ CliCrashes /\ pc' = "crashed"
    /\ UNCHANGED <<inputs, settings, delimiter, next, scaleOut>>

----------------------------------------------------------------------------
(* The checks.  Where a check of one stage rejects before and another one  *)
(* after the statement that may raise, they are early and late.            *)

IsInt(text) == text \in DOMAIN IntOf
IsDigit(text) == IsInt(text) /\ IntOf[text] >= 0
IsBool(text) == text \in {"true", "false"}
Num(f) == IntOf[value[f][1]]
Items(f) == {value[f][k] : k \in DOMAIN value[f]}
True(f) == value[f] = <<"true">>
NotInts(flags) == \E f \in flags : ~IsInt(value[f][1])

Verdict(early, crash, late, then) ==
    IF early THEN "rejected" ELSE IF crash THEN "crashed" ELSE IF late THEN "rejected" ELSE then

\* An int has no lower().
CheckHostCheck ==
    /\ pc = "hostcheck"
    /\ pc' = Verdict(value["-k"][1] \notin Keys, source["-hc"] = "cli", ~IsBool(value["-hc"][1]), "discover")
    /\ UNCHANGED <<inputs, settings, delimiter, next, scaleOut>>

\* Topology, seen from here.
Discover ==
    /\ pc = "discover"
    /\ pc' \in {"switches", "rejected", "unavailable"}
    /\ scaleOut' \in BOOLEAN
    /\ UNCHANGED <<inputs, settings, delimiter, next>>

CheckSwitches ==
    /\ pc = "switches"
    /\ pc' = Verdict(FALSE, source["-so"] = "cli",
                     \/ \E f \in {"-so", "-ssl", "-lf"} : ~IsBool(value[f][1])
                     \/ True("-lf") /\ value["-cf"] = <<>>, "times")
    /\ UNCHANGED <<inputs, settings, delimiter, next, scaleOut>>

CheckTimes ==
    /\ pc = "times"
    /\ pc' = Verdict(NotInts({"-oi", "-pt", "-ci", "-rm"}), FALSE,
                     Num("-pt") < 0 \/ Num("-rm") \notin 1 .. 3, "prio")
    /\ UNCHANGED <<inputs, settings, delimiter, next, scaleOut>>

\* One digit among the four, and one number of 1 to 4, are enough.
CheckPrio ==
    /\ pc = "prio"
    /\ LET rp == value["-rp"] IN
          pc' = Verdict(Len(rp) # 4 \/ \A t \in Items("-rp") : ~IsDigit(t),
                        \E t \in Items("-rp") : ~IsInt(t),
                        \/ \A t \in Items("-rp") : IntOf[t] \notin 1 .. 4
                        \/ \E j, k \in 1 .. 4 : j # k /\ IntOf[rp[j]] = IntOf[rp[k]],
                        "hostmode")
    /\ UNCHANGED <<inputs, settings, delimiter, next, scaleOut>>

\* num_gstacks is still a text if it was given, and then true, "0" as well.
GStacksTrue == source["-ng"] # "default" /\ value["-ng"] # <<"">>

\* Mutant: -ng is not looked at.
CheckHostMode_NoGstacks ==
    /\ pc = "hostmode"
    /\ pc' = Verdict(~IsBool(value["-hm"][1]), FALSE, True("-hm") /\ scaleOut /\ True("-lf"), "counts")
    /\ value' = [value EXCEPT !["-hm"] = IF True("-hm") /\ ~scaleOut THEN <<"false">> ELSE @]
    /\ UNCHANGED <<inputs, source, delimiter, next, scaleOut>>

CheckHostMode ==
    /\ pc = "hostmode"
    /\ pc' = Verdict(~IsBool(value["-hm"][1]), FALSE,
                     True("-hm") /\ scaleOut /\ (True("-lf") \/ GStacksTrue), "counts")
    /\ value' = [value EXCEPT !["-hm"] = IF True("-hm") /\ ~scaleOut THEN <<"false">> ELSE @]
    /\ UNCHANGED <<inputs, source, delimiter, next, scaleOut>>

CheckCounts ==
    /\ pc = "counts"
    /\ pc' = Verdict(NotInts(IntFlags), FALSE, Num("-mr") \notin 0 .. 1, "features")
    /\ UNCHANGED <<inputs, settings, delimiter, next, scaleOut>>

NumFeatures == Len(value["-cf"]) \div 4

\* CriticalFeature: view, column or WHERE, value, limit.
FeatureCrashes(k) ==
    LET cf == value["-cf"] IN cf[4 * k] = "" \/ (cf[4 * k - 2] # "WHERE" /\ cf[4 * k - 1] = "")

KillListWrong == \/ Len(value["-ks"]) # NumFeatures
                 \/ \E t \in Items("-ks") : ~IsBool(t)
IterationsWrong == \/ Len(value["-if"]) # 2 * NumFeatures
                   \/ \E t \in Items("-if") : ~IsInt(t)

\* Mutant: setKillSession without comparing the lengths.
CheckFeatures_NoLength ==
    /\ pc = "features"
    /\ pc' = Verdict(Len(value["-cf"]) % 4 # 0,
                     \/ \E k \in 1 .. NumFeatures : FeatureCrashes(k)
                     \/ Len(value["-ks"]) > NumFeatures,
                     \/ \E k \in 1 .. NumFeatures : value["-cf"][4 * k] \notin Limits
                     \/ value["-if"] # <<>> /\ IterationsWrong, "cpu")
    /\ UNCHANGED <<inputs, settings, delimiter, next, scaleOut>>

CheckFeatures ==
    /\ pc = "features"
    /\ pc' = Verdict(Len(value["-cf"]) % 4 # 0,
                     \E k \in 1 .. NumFeatures :
                        FeatureCrashes(k) /\ \A j \in 1 .. k - 1 : value["-cf"][4 * j] \in Limits,
                     \/ \E k \in 1 .. NumFeatures : value["-cf"][4 * k] \notin Limits
                     \/ value["-ks"] # <<>> /\ KillListWrong
                     \/ value["-if"] # <<>> /\ IterationsWrong, "cpu")
    /\ UNCHANGED <<inputs, settings, delimiter, next, scaleOut>>

\* The items are converted one by one: maximum, type, number, interval.
Mismatch(type, n) == (type > 0 /\ n = 0) \/ (type = 0 /\ n > 0)

CheckCpu ==
    /\ pc = "cpu"
    /\ LET cpu == value["-cpu"]
           Ok(k) == IsInt(cpu[k])
           N(k) == IntOf[cpu[k]]
       IN pc' = Verdict(\/ Len(cpu) # 4
                        \/ \A t \in Items("-cpu") : ~IsDigit(t)
                        \/ Ok(4) /\ N(4) > 100
                        \/ Ok(4) /\ Ok(1) /\ (N(1) \notin 0 .. 3 \/ (Ok(2) /\ Mismatch(N(1), N(2)))),
                        \E t \in Items("-cpu") : ~IsInt(t),
                        Mismatch(N(1), N(3)), "purpose")
    /\ UNCHANGED <<inputs, settings, delimiter, next, scaleOut>>

\* The errors for -ens and -enm without -en are under the test for -en.
CheckPurpose ==
    /\ pc = "purpose"
    /\ pc' = Verdict(/\ value["-ks"] = <<>> /\ ~True("-lf")
                     /\ \A f \in {"-nr", "-nc", "-ng", "-np"} : Num(f) <= 0, FALSE,
                     /\ value["-en"] # <<>>
                     /\ ~(Items("-en") \cup (Items("-ens") \ {""}) \subseteq Emails), "announce")
    /\ UNCHANGED <<inputs, settings, delimiter, next, scaleOut>>

\* prio_def has no entry for other numbers than 1 to 4.
Announce ==
    /\ pc = "announce"
    /\ pc' = Verdict(FALSE, \E t \in Items("-rp") : IntOf[t] \notin 1 .. 4, FALSE, "loop")
    /\ UNCHANGED <<inputs, settings, delimiter, next, scaleOut>>

----------------------------------------------------------------------------
ReadConfig == ReadArguments \/ ReadLine \/ FileEnds \/ ReadCommandLine \/ CommandLineFails
CheckConfig ==
    \/ CheckHostCheck \/ CheckSwitches \/ CheckTimes \/ CheckPrio \/ CheckHostMode
    \/ CheckCounts \/ CheckFeatures \/ CheckCpu \/ CheckPurpose \/ Announce

ConfigNext == ReadConfig \/ Discover \/ CheckConfig
ConfigSpec == ConfigInit /\ [][ConfigNext]_configVars

----------------------------------------------------------------------------
ConfigTypeOK ==
    /\ file \in Seq(EntryType) /\ cli \in Seq(EntryType)
    /\ value \in [Flags -> Seq(Texts)]
    /\ source \in [Flags -> {"default", "file", "cli"}]
    /\ \A f \in Flags : source[f] = "cli" => GivenOnCli(f)
    /\ \A f \in Flags : source[f] = "file" => GivenOnCli("-ff")
    /\ delimiter \in STRING
    /\ next \in 1 .. Len(file) + 1
    /\ scaleOut \in BOOLEAN
    /\ pc \in Stages \cup {"rejected", "crashed", "unavailable"}

\* The command line overwrites the file (hanasitter.py:1034), the file the
\* defaults; of several lines the last one counts, of several arguments the
\* first.  -cd of the command line divides only the -cf of the command line,
\* that of the file nothing.  Every flag has a default of its own, -ol and
\* -olr too: what --help says of them is LogsFollowOutput below.
LastInFile(f) == file[CHOOSE k \in DOMAIN file : /\ file[k].flag = f
                                                 /\ \A j \in k + 1 .. Len(file) : file[j].flag # f]
Effective(f) ==
    IF GivenOnCli(f) THEN CliValue(f)
    ELSE IF GivenOnCli("-ff") /\ \E k \in DOMAIN file : file[k].flag = f
         THEN Split(LastInFile(f), "1")
         ELSE Defaults[f]

EverySettingHasItsSource ==
    pc = "loop" =>
        \A f \in Flags : value[f] = IF f = "-hm" /\ ~scaleOut THEN <<"false">> ELSE Effective(f)

\* A program that starts can make the recordings it was asked for: -rp is an
\* order of the four types, although its checks let others pass; in host mode
\* there are several hosts and none of what host mode does not support.
RecordingIsWellDefined ==
    pc = "loop" =>
        /\ {IntOf[t] : t \in Items("-rp")} = 1 .. 4
        /\ Num("-rm") \in 1 .. 3
        /\ True("-hm") => scaleOut /\ Num("-ng") = 0 /\ ~True("-lf")

\* Arguments of the form --help gives, in whatever combination, are accepted
\* or rejected with a message; only -so and -hc on the command line end in an
\* exception.
Documented(entry) ==
    LET f == entry.flag IN
    /\ f \in IntFlags => IsInt(entry.items[1])
    /\ f \in BoolFlags => IsBool(entry.items[1])
    /\ f = "-rp" => \A k \in DOMAIN entry.items : entry.items[k] \in {"1", "2", "3", "4"}
    /\ f \in {"-cpu", "-if"} => \A k \in DOMAIN entry.items : IsDigit(entry.items[k])
    /\ f = "-cf" => \A k \in DOMAIN entry.items : entry.items[k] # ""

WrongCombinationsAreRejected ==
    pc = "crashed" =>
        \/ \E k \in DOMAIN cli : ~Documented(cli[k]) \/ cli[k].flag \in IntSwitches
        \/ \E k \in DOMAIN file : ~Documented(file[k])

----------------------------------------------------------------------------
(* What the documentation says and the code does not do. *)

\* hanasitter.py:47: with -cd 2 "the deliminiter of -cf is ;".
DelimiterReachesFeatures ==
    pc = "switches" /\ ~GivenOnCli("-cf") =>
        \A j, k \in DOMAIN file :
            /\ j < k /\ file[j].flag = "-cd" /\ file[j].items[1] = "2"
            /\ file[k].flag = "-cf" /\ k = Len(file)
            => value["-cf"] = Split(file[k], "2")

\* hanasitter.py:100: "-od and -odr holds for hanasitter logs also if -ol and
\* -olr are not specified".
Specified(f) == source[f] # "default"
LogsFollowOutput ==
    pc = "loop" =>
        /\ Specified("-od") /\ ~Specified("-ol") => value["-ol"] = value["-od"]
        /\ Specified("-odr") /\ ~Specified("-olr") => value["-olr"] = value["-odr"]

\* hanasitter.py:109: "-so standard out switch [true/false]".
SwitchesWorkOnCli == pc = "crashed" => \E k \in DOMAIN cli : ~Documented(cli[k])
=============================================================================
