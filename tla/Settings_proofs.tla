-------------------------- MODULE Settings_proofs --------------------------
(***************************************************************************)
(* The settings of HANASitter for any configuration files and command      *)
(* lines: where each comes from, what the checks establish of them, and    *)
(* that what --help documents never ends in an exception.                  *)
(***************************************************************************)
EXTENDS SitterConfig, WellFoundedInduction, TLAPS

Late == {"hostmode", "counts", "features", "cpu", "purpose", "announce", "loop"}

Typed ==
    /\ cli \in Seq(EntryType) /\ file \in Seq(EntryType)
    /\ value \in [Flags -> Seq(Texts)]
    /\ source \in [Flags -> {"default", "file", "cli"}]
    /\ next \in Nat \ {0}

\* What the checks up to a stage have established of -rm, -rp, -hm and -ng.
ModeChecked == pc \in Late \cup {"prio"} => Num("-rm") \in 1 .. 3
PrioChecked ==
    pc \in Late =>
        /\ Len(value["-rp"]) = 4
        /\ \A j, k \in 1 .. 4 : j # k => IntOf[value["-rp"][j]] # IntOf[value["-rp"][k]]
HostModeChecked ==
    pc \in Late \ {"hostmode"} =>
        (True("-hm") => scaleOut /\ ~True("-lf") /\ ~GStacksTrue)
GStacksDefault == source["-ng"] = "default" => value["-ng"] = <<"0">>
GStacksChecked == pc \in Late \ {"hostmode", "counts"} => IsInt(value["-ng"][1])
NamesChecked == pc = "loop" => \A t \in Items("-rp") : IntOf[t] \in 1 .. 4

ConfigInv == Typed /\ ModeChecked /\ PrioChecked /\ HostModeChecked
             /\ GStacksDefault /\ GStacksChecked /\ NamesChecked

\* A set of numbers has a least one.
LEMMA Least ==
    ASSUME NEW K \in SUBSET Nat, K # {}
    PROVE  \E k \in K : \A j \in K : k <= j
<1> DEFINE R == {ss \in Nat \X Nat : ss[1] < ss[2]}
<1>1. IsWellFoundedOn(R, Nat)
  BY NatLessThanWellFounded DEF OpToRel
<1>2. PICK k \in K : \A j \in K : ~ (<<j, k>> \in R)
  BY <1>1, WFMin
<1>3. \A j \in K : ~(j < k)
  BY <1>2
<1>4. QED
  BY <1>3

\* A bounded set of numbers has a greatest one.
LEMMA Greatest ==
    ASSUME NEW n \in Nat, NEW K \in SUBSET (1 .. n), K # {}
    PROVE  \E k \in K : \A j \in K : j <= k
<1> DEFINE D == {n - k : k \in K}
<1>0. \A k \in K : k \in Nat /\ n - k \in Nat
  OBVIOUS
<1>1. D \in SUBSET Nat /\ D # {}
  BY <1>0
<1>2. PICK d \in D : \A j \in D : d <= j
  BY <1>1, Least
<1>3. PICK k \in K : d = n - k
  BY <1>2
<1>4. ASSUME NEW j \in K
      PROVE  j <= k
  <2>1. n - j \in D
    OBVIOUS
  <2>2. n - k <= n - j /\ j \in Nat /\ k \in Nat
    BY <1>0, <1>2, <1>3, <2>1
  <2>3. QED
    BY <2>2
<1>5. QED
  BY <1>4

\* A sequence with an entry for f has a first one.
LEMMA FirstEntry ==
    ASSUME cli \in Seq(EntryType), NEW f, GivenOnCli(f)
    PROVE  /\ OnCli(f) \in EntryType /\ OnCli(f).flag = f
           /\ \E k \in DOMAIN cli : OnCli(f) = cli[k]
<1> DEFINE K == {k \in DOMAIN cli : cli[k].flag = f}
<1>1. K \in SUBSET Nat /\ K # {} /\ DOMAIN cli = 1 .. Len(cli) /\ Len(cli) \in Nat
  BY DEF GivenOnCli
<1>2. PICK k \in K : \A j \in K : k <= j
  BY <1>1, Least
<1>3. ASSUME NEW j \in 1 .. k - 1
      PROVE  cli[j].flag # f
  <2>1. j \in DOMAIN cli /\ ~(k <= j)
    BY <1>1
  <2>2. QED
    BY <1>2, <2>1
<1> DEFINE c == CHOOSE n \in DOMAIN cli : cli[n].flag = f /\ \A j \in 1 .. n - 1 : cli[j].flag # f
<1>4. c \in DOMAIN cli /\ cli[c].flag = f
  BY <1>3
<1>5. OnCli(f) = cli[c]
  BY DEF OnCli
<1>6. cli[c] \in EntryType
  BY <1>4
<1>7. QED
  BY <1>4, <1>5, <1>6, Zenon

LEMMA TextFacts ==
    /\ "0" \in Texts /\ "1" \in Texts /\ "2" \in Texts /\ "3" \in Texts /\ "4" \in Texts
    /\ "60" \in Texts /\ "100" \in Texts /\ "3600" \in Texts /\ "-1" \in Texts
    /\ "true" \in Texts /\ "false" \in Texts /\ "SYSTEMKEY" \in Texts
    /\ "/tmp/hanasitter_output" \in Texts /\ "unsplit" \in Texts
BY ConfigAssumption

\* Splitting keeps lists of texts.
LEMMA SplitTyped ==
    ASSUME NEW entry \in EntryType, NEW mode
    PROVE  Split(entry, mode) \in Seq(Texts)
<1>1. entry.items \in Seq(Texts)
  BY DEF EntryType
<1>2. <<"unsplit">> \in Seq(Texts)
  BY TextFacts
<1>3. Split(entry, mode) = entry.items \/ Split(entry, mode) = <<"unsplit">>
  BY Zenon DEF Split
<1>4. QED
  BY <1>1, <1>2, <1>3

LEMMA CliTyped ==
    ASSUME cli \in Seq(EntryType), NEW f, GivenOnCli(f)
    PROVE  CliValue(f) \in Seq(Texts)
<1>1. Split(OnCli(f), CliDelimiter) \in Seq(Texts)
  BY FirstEntry, SplitTyped
<1>2. CliValue(f) = <<>> \/ CliValue(f) = Split(OnCli(f), CliDelimiter)
  BY Zenon DEF CliValue
<1>3. <<>> \in Seq(Texts)
  OBVIOUS
<1>4. QED
  BY <1>1, <1>2, <1>3

LEMMA DefaultsTyped == Defaults \in [Flags -> Seq(Texts)] /\ Defaults["-ng"] = <<"0">>
<1>1. Defaults \in [Flags -> Seq(Texts)]
  <2>1. /\ <<"3600">> \in Seq(Texts) /\ <<"60">> \in Seq(Texts) /\ <<"1">> \in Seq(Texts)
        /\ <<"0">> \in Seq(Texts) /\ <<"-1">> \in Seq(Texts)
        /\ <<"false">> \in Seq(Texts) /\ <<"true">> \in Seq(Texts)
        /\ <<"SYSTEMKEY">> \in Seq(Texts) /\ <<"/tmp/hanasitter_output">> \in Seq(Texts)
        /\ <<>> \in Seq(Texts)
    BY TextFacts
  <2>2. <<"1", "2", "3", "4">> \in Seq(Texts) /\ <<"0", "0", "0", "100">> \in Seq(Texts)
    BY TextFacts
  <2>3. QED
    BY <2>1, <2>2 DEF Defaults
<1>2. Defaults["-ng"] = <<"0">>
  BY DEF Defaults, Flags, IntFlags
<1>3. QED
  BY <1>1, <1>2

LEMMA TheFlags == {"-rm", "-rp", "-hm", "-ng", "-lf"} \subseteq Flags /\ "-ng" \in IntFlags
BY DEF Flags, IntFlags, BoolFlags, ListFlags

LEMMA VerdictCases ==
    ASSUME NEW early, NEW crash, NEW late, NEW then
    PROVE  /\ Verdict(early, crash, late, then) \in {"rejected", "crashed", then}
           /\ Verdict(early, crash, late, then) \notin {"rejected", "crashed"} =>
                 ~early /\ ~crash /\ ~late /\ Verdict(early, crash, late, then) = then
BY DEF Verdict

LEMMA ConfigInitInv == ConfigInit => ConfigInv
<1> SUFFICES ASSUME ConfigInit PROVE ConfigInv
  OBVIOUS
<1>1. Typed
  <2>1. Files \subseteq Seq(EntryType) /\ Lines \subseteq Seq(EntryType)
    BY ConfigAssumption
  <2>2. file \in Seq(EntryType) /\ cli \in Seq(EntryType)
    BY <2>1 DEF ConfigInit
  <2>3. QED
    BY <2>2, DefaultsTyped DEF ConfigInit, Typed
<1>2. GStacksDefault
  BY DefaultsTyped DEF ConfigInit, GStacksDefault
<1>3. pc \notin Late \cup {"prio"}
  BY DEF ConfigInit, Late
<1>4. QED
  BY <1>1, <1>2, <1>3 DEF ConfigInv, ModeChecked, PrioChecked, HostModeChecked, GStacksChecked,
     NamesChecked, Late

\* Before -oi is checked, nothing is promised but the types.
LEMMA EarlyStep ==
    ASSUME ConfigInv, pc' \notin Late \cup {"prio"},
           Typed', GStacksDefault'
    PROVE  ConfigInv'
BY DEF ConfigInv, ModeChecked, PrioChecked, HostModeChecked, GStacksChecked, NamesChecked, Late

LEMMA SettingsUnchanged ==
    ASSUME ConfigInv, UNCHANGED <<inputs, settings, next>>
    PROVE  Typed' /\ GStacksDefault'
BY DEF ConfigInv, Typed, GStacksDefault, inputs, settings

LEMMA ReadingKeeps ==
    ASSUME ConfigInv, ReadConfig
    PROVE  ConfigInv'
<1>1. CASE ReadArguments
  <2>1. pc' \notin Late \cup {"prio"}
    BY <1>1 DEF ReadArguments, Late
  <2>2. QED
    BY <1>1, <2>1, EarlyStep, SettingsUnchanged DEF ReadArguments
<1>2. CASE FileEnds
  <2>1. pc' \notin Late \cup {"prio"}
    BY <1>2 DEF FileEnds, Late
  <2>2. QED
    BY <1>2, <2>1, EarlyStep, SettingsUnchanged DEF FileEnds
<1>3. CASE CommandLineFails
  <2>1. pc' \notin Late \cup {"prio"}
    BY <1>3 DEF CommandLineFails, Late
  <2>2. QED
    BY <1>3, <2>1, EarlyStep, SettingsUnchanged DEF CommandLineFails
<1>4. CASE ReadLine
  <2>1. pc' \notin Late \cup {"prio"}
    BY <1>4 DEF ReadLine, Late
  <2>2. CASE UNCHANGED settings
    BY <1>4, <2>1, <2>2, EarlyStep DEF ReadLine, ConfigInv, Typed, GStacksDefault, inputs, settings
  <2>3. CASE ~ UNCHANGED settings
    <3> DEFINE entry == file[next]
               new == Split(entry, delimiter')
    <3>1. /\ entry.flag \in Flags
          /\ value' = [value EXCEPT ![entry.flag] = new]
          /\ source' = [source EXCEPT ![entry.flag] = "file"]
      BY <1>4, <2>3 DEF ReadLine
    <3>2. /\ value \in [Flags -> Seq(Texts)] /\ source \in [Flags -> {"default", "file", "cli"}]
          /\ cli' = cli /\ file' = file /\ cli \in Seq(EntryType) /\ file \in Seq(EntryType)
      BY <1>4 DEF ConfigInv, Typed, ReadLine, inputs
    <3>3. new \in Seq(Texts)
      <4>1. CASE entry \in EntryType
        BY <4>1, SplitTyped
      <4>2. entry \in EntryType
        BY <1>4, <3>2 DEF ReadLine, ConfigInv, Typed
      <4>3. QED
        BY <4>1, <4>2
    <3>4. Typed'
      BY <1>4, <3>1, <3>2, <3>3 DEF Typed, ConfigInv, ReadLine
    <3>5. GStacksDefault'
      BY <3>1, <3>2, TheFlags DEF GStacksDefault, ConfigInv
    <3>6. QED
      BY <2>1, <3>4, <3>5, EarlyStep
  <2>4. QED
    BY <2>2, <2>3
<1>5. CASE ReadCommandLine
  <2>1. pc' \notin Late \cup {"prio"}
    BY <1>5 DEF ReadCommandLine, Late
  <2>2. /\ value \in [Flags -> Seq(Texts)] /\ source \in [Flags -> {"default", "file", "cli"}]
        /\ cli' = cli /\ file' = file /\ cli \in Seq(EntryType) /\ file \in Seq(EntryType)
    BY <1>5 DEF ConfigInv, Typed, ReadCommandLine, inputs
  <2>3. \A f \in Flags : GivenOnCli(f) => CliValue(f) \in Seq(Texts)
    BY <2>2, CliTyped
  <2>4. Typed'
    BY <1>5, <2>2, <2>3 DEF Typed, ReadCommandLine, ConfigInv
  <2>5. GStacksDefault'
    <3>1. source'["-ng"] = IF GivenOnCli("-ng") THEN "cli" ELSE source["-ng"]
      BY <1>5, TheFlags DEF ReadCommandLine
    <3>2. value'["-ng"] = IF GivenOnCli("-ng") THEN CliValue("-ng") ELSE value["-ng"]
      BY <1>5, TheFlags DEF ReadCommandLine
    <3>3. QED
      BY <3>1, <3>2 DEF ConfigInv, GStacksDefault
  <2>6. QED
    BY <2>1, <2>4, <2>5, EarlyStep
<1>6. QED
  BY <1>1, <1>2, <1>3, <1>4, <1>5 DEF ReadConfig

\* A check that goes on to the next stage has found nothing wrong.
LEMMA CheckKeeps ==
    ASSUME ConfigInv, NEW early, NEW crash, NEW late, NEW then,
           pc' = Verdict(early, crash, late, then), UNCHANGED <<inputs, settings, next, scaleOut>>
    PROVE  /\ Typed' /\ GStacksDefault'
           /\ pc' \in Late \cup {"prio"} => pc' = then /\ ~early /\ ~crash /\ ~late
<1>1. Typed' /\ GStacksDefault'
  BY SettingsUnchanged
<1>2. "rejected" \notin Late \cup {"prio"} /\ "crashed" \notin Late \cup {"prio"}
  BY DEF Late
<1>3. QED
  BY <1>1, <1>2, VerdictCases

LEMMA EarlyChecksKeep ==
    ASSUME ConfigInv, CheckHostCheck \/ Discover \/ CheckSwitches
    PROVE  ConfigInv'
<1>1. CASE CheckHostCheck
  <2>1. Typed' /\ GStacksDefault' /\ pc' \notin Late \cup {"prio"}
    <3>1. "discover" \notin Late \cup {"prio"}
      BY DEF Late
    <3>2. QED
      BY <1>1, <3>1, CheckKeeps DEF CheckHostCheck
  <2>2. QED
    BY <2>1, EarlyStep
<1>2. CASE Discover
  <2>1. pc' \notin Late \cup {"prio"}
    BY <1>2 DEF Discover, Late
  <2>2. QED
    BY <1>2, <2>1, EarlyStep, SettingsUnchanged DEF Discover
<1>3. CASE CheckSwitches
  <2>1. Typed' /\ GStacksDefault' /\ pc' \notin Late \cup {"prio"}
    <3>1. "times" \notin Late \cup {"prio"}
      BY DEF Late
    <3>2. pc' \notin Late \cup {"prio"}
      BY <1>3, <3>1 DEF CheckSwitches, Verdict, Late
    <3>3. QED
      BY <1>3, <3>2, SettingsUnchanged DEF CheckSwitches
  <2>2. QED
    BY <2>1, EarlyStep
<1>4. QED
  BY <1>1, <1>2, <1>3

LEMMA TimesKeeps ==
    ASSUME ConfigInv, CheckTimes
    PROVE  ConfigInv'
<1>1. /\ Typed' /\ GStacksDefault'
      /\ pc' \in Late \cup {"prio"} => pc' = "prio" /\ Num("-rm") \in 1 .. 3
  BY CheckKeeps DEF CheckTimes
<1>2. value' = value
  BY DEF CheckTimes, settings
<1>3. QED
  BY <1>1, <1>2 DEF ConfigInv, ModeChecked, PrioChecked, HostModeChecked, GStacksChecked,
     NamesChecked, Late, Num

LEMMA PrioKeeps ==
    ASSUME ConfigInv, CheckPrio
    PROVE  ConfigInv'
<1> DEFINE rp == value["-rp"]
<1>1. /\ Typed' /\ GStacksDefault'
      /\ pc' \in Late \cup {"prio"} =>
            /\ pc' = "hostmode" /\ Len(rp) = 4
            /\ ~ \E j, k \in 1 .. 4 : j # k /\ IntOf[rp[j]] = IntOf[rp[k]]
  <2>1. Typed' /\ GStacksDefault'
    BY SettingsUnchanged DEF CheckPrio
  <2>2. "rejected" \notin Late \cup {"prio"} /\ "crashed" \notin Late \cup {"prio"}
    BY DEF Late
  <2>3. QED
    BY <2>1, <2>2, Zenon DEF CheckPrio, Verdict
<1>2. value' = value /\ pc = "prio"
  BY DEF CheckPrio, settings
<1>3. QED
  BY <1>1, <1>2 DEF ConfigInv, ModeChecked, PrioChecked, HostModeChecked, GStacksChecked,
     NamesChecked, Late, Num

LEMMA HostModeKeeps ==
    ASSUME ConfigInv, CheckHostMode
    PROVE  ConfigInv'
<1>1. /\ value \in [Flags -> Seq(Texts)]
      /\ value' = [value EXCEPT !["-hm"] = IF True("-hm") /\ ~scaleOut THEN <<"false">> ELSE @]
      /\ source' = source /\ scaleOut' = scaleOut /\ pc = "hostmode"
      /\ file' = file /\ cli' = cli /\ next' = next
  BY DEF ConfigInv, Typed, CheckHostMode, inputs
<1>2. Typed'
  <2>1. <<"false">> \in Seq(Texts)
    BY TextFacts
  <2>2. value' \in [Flags -> Seq(Texts)]
    BY <1>1, <2>1, TheFlags
  <2>3. QED
    BY <1>1, <2>2 DEF ConfigInv, Typed
<1>3. \A f \in Flags : f # "-hm" => value'[f] = value[f]
  BY <1>1
<1>4. GStacksDefault'
  BY <1>1, <1>3, TheFlags DEF ConfigInv, GStacksDefault
<1>5. pc' \in Late \cup {"prio"} => /\ pc' = "counts"
                                   /\ ~(True("-hm") /\ scaleOut /\ (True("-lf") \/ GStacksTrue))
  <2>1. "rejected" \notin Late \cup {"prio"} /\ "crashed" \notin Late \cup {"prio"}
    BY DEF Late
  <2>2. QED
    BY <2>1, Zenon DEF CheckHostMode, Verdict
<1>6. ModeChecked' /\ PrioChecked' /\ GStacksChecked' /\ NamesChecked'
  BY <1>1, <1>3, <1>5, TheFlags DEF ConfigInv, ModeChecked, PrioChecked, GStacksChecked, NamesChecked, Late, Num
<1>7. HostModeChecked'
  <2>1. CASE True("-hm") /\ ~scaleOut
    <3>1. value'["-hm"] = <<"false">>
      BY <1>1, <2>1, TheFlags
    <3>2. <<"false">> # <<"true">>
      OBVIOUS
    <3>3. QED
      BY <3>1, <3>2 DEF HostModeChecked, True
  <2>2. CASE ~(True("-hm") /\ ~scaleOut)
    <3>1. value'["-hm"] = value["-hm"] /\ value'["-lf"] = value["-lf"] /\ value'["-ng"] = value["-ng"]
      BY <1>1, <1>3, <2>2, TheFlags
    <3>2. QED
      BY <1>1, <1>5, <2>2, <3>1 DEF HostModeChecked, True, GStacksTrue, Late
  <2>3. QED
    BY <2>1, <2>2
<1>8. QED
  BY <1>2, <1>4, <1>6, <1>7 DEF ConfigInv

LEMMA CountsKeeps ==
    ASSUME ConfigInv, CheckCounts
    PROVE  ConfigInv'
<1>1. /\ Typed' /\ GStacksDefault'
      /\ pc' \in Late \cup {"prio"} => pc' = "features" /\ IsInt(value["-ng"][1])
  BY CheckKeeps, TheFlags DEF CheckCounts, NotInts
<1>2. value' = value /\ source' = source /\ scaleOut' = scaleOut /\ pc = "counts"
  BY DEF CheckCounts, settings
<1>3. ModeChecked' /\ PrioChecked'
  BY <1>1, <1>2 DEF ConfigInv, ModeChecked, PrioChecked, Late, Num
<1>4. HostModeChecked'
  BY <1>1, <1>2 DEF ConfigInv, HostModeChecked, Late, True, GStacksTrue
<1>5. GStacksChecked' /\ NamesChecked'
  BY <1>1, <1>2 DEF GStacksChecked, NamesChecked, Late, IsInt
<1>6. QED
  BY <1>1, <1>3, <1>4, <1>5 DEF ConfigInv

\* What holds after -ng keeps holding.
LEMMA LateStep ==
    ASSUME ConfigInv, pc \in Late \ {"hostmode", "counts"},
           UNCHANGED <<inputs, settings, next, scaleOut>>,
           NamesChecked'
    PROVE  ConfigInv'
<1>1. value' = value /\ source' = source /\ scaleOut' = scaleOut
  BY DEF settings
<1>2. Typed' /\ GStacksDefault'
  BY SettingsUnchanged
<1>3. ModeChecked' /\ PrioChecked'
  BY <1>1 DEF ConfigInv, ModeChecked, PrioChecked, Late, Num
<1>4. HostModeChecked'
  <2>1. pc \in Late \ {"hostmode"}
    BY DEF Late
  <2>2. True("-hm") => scaleOut /\ ~True("-lf") /\ ~GStacksTrue
    BY <2>1 DEF ConfigInv, HostModeChecked
  <2>3. ASSUME True("-hm")'
        PROVE  scaleOut' /\ ~True("-lf")' /\ ~GStacksTrue'
    <3>1. scaleOut /\ ~True("-lf") /\ ~GStacksTrue
      BY <1>1, <2>2, <2>3 DEF True
    <3>2. scaleOut'
      BY <1>1, <3>1
    <3>3. ~True("-lf")'
      BY <1>1, <3>1 DEF True
    <3>4. ~GStacksTrue'
      BY <1>1, <3>1 DEF GStacksTrue
    <3>5. QED
      BY <3>2, <3>3, <3>4
  <2>4. QED
    BY <2>3 DEF HostModeChecked
<1>5. GStacksChecked'
  BY <1>1 DEF ConfigInv, GStacksChecked, Late, IsInt
<1>6. QED
  BY <1>2, <1>3, <1>4, <1>5 DEF ConfigInv

LEMMA LateChecksKeep ==
    ASSUME ConfigInv, CheckFeatures \/ CheckCpu \/ CheckPurpose \/ Announce
    PROVE  ConfigInv'
<1>1. pc \in Late \ {"hostmode", "counts"} /\ UNCHANGED <<inputs, settings, next, scaleOut>>
  BY DEF CheckFeatures, CheckCpu, CheckPurpose, Announce, Late
<1>2. NamesChecked'
  <2>1. CASE CheckFeatures \/ CheckCpu \/ CheckPurpose
    <3>1. pc' # "loop"
      <4>1. CASE CheckFeatures
        BY <4>1, Zenon DEF CheckFeatures, Verdict
      <4>2. CASE CheckCpu
        BY <4>2, Zenon DEF CheckCpu, Verdict
      <4>3. CASE CheckPurpose
        BY <4>3, Zenon DEF CheckPurpose, Verdict
      <4>4. QED
        BY <2>1, <4>1, <4>2, <4>3
    <3>2. QED
      BY <3>1 DEF NamesChecked
  <2>2. CASE Announce
    <3>1. pc' = "loop" => ~ \E t \in Items("-rp") : IntOf[t] \notin 1 .. 4
      BY <2>2, VerdictCases DEF Announce
    <3>2. value' = value
      BY <2>2 DEF Announce, settings
    <3>3. QED
      BY <3>1, <3>2 DEF NamesChecked, Items
  <2>3. QED
    BY <2>1, <2>2
<1>3. QED
  BY <1>1, <1>2, LateStep

LEMMA ConfigStepKeeps ==
    ASSUME ConfigInv, [ConfigNext]_configVars
    PROVE  ConfigInv'
<1>1. CASE ConfigNext
  BY <1>1, ReadingKeeps, EarlyChecksKeep, TimesKeeps, PrioKeeps, HostModeKeeps, CountsKeeps,
     LateChecksKeep DEF ConfigNext, CheckConfig
<1>2. CASE UNCHANGED configVars
  <2>1. UNCHANGED <<inputs, settings, next>> /\ value' = value /\ source' = source
        /\ scaleOut' = scaleOut /\ pc' = pc
    BY <1>2 DEF configVars, settings
  <2>2. Typed' /\ GStacksDefault'
    BY <2>1, SettingsUnchanged
  <2>3. QED
    BY <2>1, <2>2 DEF ConfigInv, ModeChecked, PrioChecked, HostModeChecked, GStacksChecked,
       NamesChecked, Num, IsInt, True, GStacksTrue, Items
<1>3. QED
  BY <1>1, <1>2

LEMMA StartedIsWellDefined ==
    ASSUME ConfigInv
    PROVE  RecordingIsWellDefined
<1> SUFFICES ASSUME pc = "loop"
             PROVE  /\ {IntOf[t] : t \in Items("-rp")} = 1 .. 4
                    /\ Num("-rm") \in 1 .. 3
                    /\ True("-hm") => scaleOut /\ Num("-ng") = 0 /\ ~True("-lf")
  BY DEF RecordingIsWellDefined
<1> DEFINE rp == value["-rp"]
<1>1. Num("-rm") \in 1 .. 3
  BY DEF ConfigInv, ModeChecked, Late
<1>2. {IntOf[t] : t \in Items("-rp")} = 1 .. 4
  <2>1. rp \in Seq(Texts) /\ Len(rp) = 4
    BY TheFlags DEF ConfigInv, Typed, PrioChecked, Late
  <2>2. DOMAIN rp = 1 .. 4
    BY <2>1
  <2>3. \A k \in 1 .. 4 : rp[k] \in Items("-rp")
    BY <2>2 DEF Items
  <2>4. \A k \in 1 .. 4 : IntOf[rp[k]] \in 1 .. 4
    BY <2>3 DEF ConfigInv, NamesChecked
  <2>5. \A j, k \in 1 .. 4 : j # k => IntOf[rp[j]] # IntOf[rp[k]]
    BY DEF ConfigInv, PrioChecked, Late
  <2>6. \A n \in 1 .. 4 : \E k \in 1 .. 4 : IntOf[rp[k]] = n
    <3>1. /\ IntOf[rp[1]] \in 1 .. 4 /\ IntOf[rp[2]] \in 1 .. 4
          /\ IntOf[rp[3]] \in 1 .. 4 /\ IntOf[rp[4]] \in 1 .. 4
      BY <2>4
    <3>2. /\ IntOf[rp[1]] # IntOf[rp[2]] /\ IntOf[rp[1]] # IntOf[rp[3]] /\ IntOf[rp[1]] # IntOf[rp[4]]
          /\ IntOf[rp[2]] # IntOf[rp[3]] /\ IntOf[rp[2]] # IntOf[rp[4]] /\ IntOf[rp[3]] # IntOf[rp[4]]
      BY <2>5
    <3>3. \A n \in 1 .. 4 : \/ n = IntOf[rp[1]] \/ n = IntOf[rp[2]]
                            \/ n = IntOf[rp[3]] \/ n = IntOf[rp[4]]
      BY <3>1, <3>2
    <3>4. QED
      BY <3>3
  <2>7. QED
    BY <2>2, <2>3, <2>4, <2>6 DEF Items
<1>3. ASSUME True("-hm")
      PROVE  scaleOut /\ Num("-ng") = 0 /\ ~True("-lf")
  <2>1. scaleOut /\ ~True("-lf") /\ ~GStacksTrue
    BY <1>3 DEF ConfigInv, HostModeChecked, Late
  <2>2. IsInt(value["-ng"][1])
    BY DEF ConfigInv, GStacksChecked, Late
  <2>3. value["-ng"] # <<"">>
    <3>1. "" \notin DOMAIN IntOf
      BY ConfigAssumption
    <3>2. <<"">>[1] = ""
      OBVIOUS
    <3>3. QED
      BY <2>2, <3>1, <3>2, Zenon DEF IsInt
  <2>4. value["-ng"] = <<"0">>
    BY <2>1, <2>3 DEF ConfigInv, GStacksDefault, GStacksTrue
  <2>5. IntOf["0"] = 0
    BY ConfigAssumption
  <2>6. QED
    BY <2>1, <2>4, <2>5 DEF Num
<1>4. QED
  BY <1>1, <1>2, <1>3

\* What starts can make the recordings it was asked for, whatever file,
\* command line and landscape it is started with (hanasitter.py:1209-1510).
THEOREM ConfigSafety == ConfigSpec => []RecordingIsWellDefined
<1>1. ConfigSpec => []ConfigInv
  BY ConfigInitInv, ConfigStepKeeps, PTL DEF ConfigSpec
<1>2. ConfigInv => RecordingIsWellDefined
  BY StartedIsWellDefined
<1>3. QED
  BY <1>1, <1>2, PTL

----------------------------------------------------------------------------
(* Where the settings come from. *)

IsLast(k, n, f) ==
    /\ k \in 1 .. n /\ file[k].flag = f
    /\ \A j \in k + 1 .. n : file[j].flag # f

\* The setting after the first n lines of the file.
FromFile(n, f) ==
    \/ (\A k \in 1 .. n : file[k].flag # f) /\ value[f] = Defaults[f]
    \/ \E k \in 1 .. n : IsLast(k, n, f) /\ value[f] = Split(file[k], "1")

\* The setting before the command line is looked at.
Based(f) ==
    IF GivenOnCli("-ff") /\ \E k \in DOMAIN file : file[k].flag = f
    THEN Split(LastInFile(f), "1")
    ELSE Defaults[f]

Settled == {"hostcheck", "discover", "switches", "times", "prio", "hostmode"}

SourceInv ==
    /\ next \in 1 .. Len(file) + 1
    /\ pc = "arguments" => next = 1
    /\ pc \in {"arguments", "file"} =>
         \A n \in Nat : n = next - 1 => \A f \in Flags : FromFile(n, f)
    /\ pc = "file" => GivenOnCli("-ff")
    /\ pc = "cli" => \A f \in Flags : value[f] = Based(f)
    /\ pc \in Settled => \A f \in Flags : value[f] = Effective(f)
    /\ pc \in Late \ {"hostmode"} =>
         \A f \in Flags : value[f] = IF f = "-hm" /\ ~scaleOut THEN <<"false">> ELSE Effective(f)

\* A flag has one last line.
LEMMA LastIsOne ==
    ASSUME file \in Seq(EntryType), NEW f, NEW k \in 1 .. Len(file), IsLast(k, Len(file), f)
    PROVE  LastInFile(f) = file[k]
<1> DEFINE P(c) == file[c].flag = f /\ \A j \in c + 1 .. Len(file) : file[j].flag # f
           c == CHOOSE c \in DOMAIN file : P(c)
<1>1. DOMAIN file = 1 .. Len(file) /\ Len(file) \in Nat
  OBVIOUS
<1>2. k \in DOMAIN file /\ P(k)
  BY <1>1 DEF IsLast
<1>3. c \in DOMAIN file /\ P(c)
  BY <1>2
<1>4. c = k
  <2>1. c \in Nat /\ k \in Nat /\ c \in 1 .. Len(file)
    BY <1>1, <1>3
  <2>2. ~(c < k)
    BY <1>1, <1>2, <1>3, <2>1
  <2>3. ~(k < c)
    BY <1>1, <1>2, <1>3, <2>1
  <2>4. QED
    BY <2>1, <2>2, <2>3
<1>5. LastInFile(f) = file[c]
  BY DEF LastInFile
<1>6. QED
  BY <1>4, <1>5

\* A line replaces the setting of its flag and no other.
LEMMA LineFromFile ==
    ASSUME Typed, ReadLine, NEW n \in Nat, n = next, NEW f \in Flags, FromFile(n - 1, f)
    PROVE  FromFile(n, f)'
<1> DEFINE entry == file[n]
<1>1. n \in 1 .. Len(file) /\ file' = file /\ Len(file) \in Nat
  BY DEF ReadLine, Typed, inputs
<1>2. CASE entry.flag = f
  <2>1. delimiter' = "1"
    BY <1>2 DEF ReadLine, Flags, IntFlags, BoolFlags, ListFlags, TextFlags
  <2>2. value'[f] = Split(entry, "1")
    BY <1>2, <2>1 DEF ReadLine, Typed
  <2>3. IsLast(n, n, f)'
    BY <1>1, <1>2 DEF IsLast
  <2>4. value'[f] = Split(file'[n], "1") /\ n \in 1 .. n
    BY <1>1, <2>2
  <2>5. QED
    BY <2>3, <2>4 DEF FromFile
<1>3. CASE entry.flag # f
  <2>1. value'[f] = value[f]
    BY <1>3 DEF ReadLine, Typed, settings
  <2>2. CASE \A k \in 1 .. n - 1 : file[k].flag # f
    <3>1. value[f] = Defaults[f]
      BY <2>2 DEF FromFile, IsLast
    <3>2. \A k \in 1 .. n : file[k].flag # f
      BY <1>1, <1>3, <2>2
    <3>3. QED
      BY <1>1, <2>1, <3>1, <3>2 DEF FromFile
  <2>3. CASE ~ \A k \in 1 .. n - 1 : file[k].flag # f
    <3>1. PICK k \in 1 .. n - 1 : IsLast(k, n - 1, f) /\ value[f] = Split(file[k], "1")
      BY <2>3 DEF FromFile
    <3>2. k \in 1 .. n /\ IsLast(k, n, f)'
      BY <1>1, <1>3, <3>1 DEF IsLast
    <3>3. QED
      BY <1>1, <2>1, <3>1, <3>2 DEF FromFile
  <2>4. QED
    BY <2>2, <2>3
<1>4. QED
  BY <1>2, <1>3

\* At the end of the file, what it leaves is what its last lines say.
LEMMA FileIsBased ==
    ASSUME file \in Seq(EntryType), NEW f \in Flags,
           IF GivenOnCli("-ff") THEN FromFile(Len(file), f) ELSE value[f] = Defaults[f]
    PROVE  value[f] = Based(f)
<1>1. CASE ~GivenOnCli("-ff")
  BY <1>1 DEF Based
<1>2. CASE GivenOnCli("-ff") /\ \A k \in DOMAIN file : file[k].flag # f
  BY <1>2 DEF FromFile, IsLast, Based
<1>3. CASE GivenOnCli("-ff") /\ \E k \in DOMAIN file : file[k].flag = f
  <2>1. PICK k \in 1 .. Len(file) : IsLast(k, Len(file), f) /\ value[f] = Split(file[k], "1")
    BY <1>3 DEF FromFile
  <2>2. LastInFile(f) = file[k]
    BY <2>1, LastIsOne
  <2>3. QED
    BY <1>3, <2>1, <2>2 DEF Based
<1>4. QED
  BY <1>1, <1>2, <1>3

\* A stage that leaves the settings alone keeps what is known of them, if the
\* next one is as late.
LEMMA SettingsKept ==
    ASSUME Typed, SourceInv, UNCHANGED <<inputs, value, next>>,
           \/ pc \in Settled /\ pc' \in Settled \cup {"rejected", "crashed", "unavailable"}
           \/ /\ pc \in Late \ {"hostmode"} /\ scaleOut' = scaleOut
              /\ pc' \in (Late \ {"hostmode"}) \cup {"rejected", "crashed", "unavailable"}
    PROVE  SourceInv'
<1>1. /\ file' = file /\ cli' = cli /\ value' = value /\ next' = next
      /\ pc' \notin {"arguments", "file", "cli"}
  BY DEF inputs, Settled, Late
<1>2. \A f \in Flags : Effective(f)' = Effective(f)
  BY <1>1 DEF Effective, GivenOnCli, CliValue, CliDelimiter, OnCli, LastInFile
<1>3. pc' \in Settled => \A f \in Flags : value'[f] = Effective(f)'
  BY <1>1, <1>2 DEF SourceInv, Settled, Late
<1>4. pc' \in Late \ {"hostmode"} =>
        \A f \in Flags : value'[f] = IF f = "-hm" /\ ~scaleOut' THEN <<"false">> ELSE Effective(f)'
  BY <1>1, <1>2 DEF SourceInv, Settled, Late
<1>5. QED
  BY <1>1, <1>3, <1>4 DEF SourceInv

LEMMA ReadingSource ==
    ASSUME Typed, SourceInv, ReadConfig
    PROVE  SourceInv'
<1>0. file' = file /\ cli' = cli /\ file \in Seq(EntryType) /\ Len(file) \in Nat /\ next \in Nat
  BY DEF ReadConfig, ReadArguments, ReadLine, FileEnds, ReadCommandLine, CommandLineFails, inputs, Typed
<1>1. CASE ReadArguments
  <2>1. /\ pc = "arguments" /\ value' = value /\ next' = next /\ next = 1
        /\ pc' \in {"rejected", "file", "cli"}
        /\ pc' = "file" => GivenOnCli("-ff")
        /\ pc' = "cli" => ~GivenOnCli("-ff")
    BY <1>1 DEF ReadArguments, SourceInv, settings
  <2>2. \A f \in Flags : FromFile(0, f) /\ value[f] = Defaults[f]
    BY <2>1 DEF SourceInv, FromFile
  <2>3. CASE pc' = "file"
    <3>1. \A f \in Flags : FromFile(0, f)'
      BY <1>0, <2>1, <2>2 DEF FromFile
    <3>2. GivenOnCli("-ff")'
      BY <1>0, <2>1, <2>3 DEF GivenOnCli
    <3>3. QED
      BY <1>0, <2>1, <2>3, <3>1, <3>2 DEF SourceInv, Settled, Late
  <2>4. CASE pc' = "cli"
    <3>1. \A f \in Flags : value'[f] = Based(f)'
      BY <1>0, <2>1, <2>2, <2>4 DEF Based, GivenOnCli
    <3>2. QED
      BY <1>0, <2>1, <2>4, <3>1 DEF SourceInv, Settled, Late
  <2>5. CASE pc' = "rejected"
    BY <1>0, <2>1, <2>5 DEF SourceInv, Settled, Late
  <2>6. QED
    BY <2>1, <2>3, <2>4, <2>5
<1>2. CASE ReadLine
  <2>1. pc' = "file" /\ pc = "file" /\ next' = next + 1 /\ next <= Len(file)
    BY <1>2 DEF ReadLine
  <2>2. PICK n \in Nat : n = next
    BY <1>0
  <2>3. \A f \in Flags : FromFile(n - 1, f)
    BY <2>1, <2>2 DEF SourceInv
  <2>4. \A f \in Flags : FromFile(n, f)'
    BY <1>2, <2>2, <2>3, LineFromFile
  <2>5. next' - 1 = n /\ next' \in 1 .. Len(file') + 1
    BY <1>0, <2>1, <2>2 DEF SourceInv
  <2>6. GivenOnCli("-ff")'
    BY <1>0, <2>1 DEF SourceInv, GivenOnCli
  <2>7. QED
    BY <2>1, <2>4, <2>5, <2>6 DEF SourceInv, Settled, Late
<1>3. CASE FileEnds
  <2>1. /\ pc = "file" /\ value' = value /\ next' = next /\ pc' \in {"cli", "rejected"}
        /\ pc' = "cli" => next > Len(file)
    BY <1>3 DEF FileEnds, settings
  <2>2. CASE pc' = "cli"
    <3>1. next - 1 = Len(file)
      BY <1>0, <2>1, <2>2 DEF SourceInv
    <3>2. GivenOnCli("-ff") /\ \A f \in Flags : FromFile(Len(file), f)
      BY <2>1, <3>1 DEF SourceInv
    <3>3. \A f \in Flags : value[f] = Based(f)
      BY <1>0, <3>2, FileIsBased
    <3>4. \A f \in Flags : Based(f)' = Based(f)
      BY <1>0 DEF Based, GivenOnCli, LastInFile
    <3>5. \A f \in Flags : value'[f] = Based(f)'
      BY <2>1, <3>3, <3>4
    <3>6. QED
      BY <1>0, <2>1, <2>2, <3>5 DEF SourceInv, Settled, Late
  <2>3. CASE pc' = "rejected"
    BY <1>0, <2>1, <2>3 DEF SourceInv, Settled, Late
  <2>4. QED
    BY <2>1, <2>2, <2>3
<1>4. CASE ReadCommandLine
  <2>1. /\ pc = "cli" /\ pc' = "hostcheck" /\ next' = next
        /\ value' = [f \in Flags |-> IF GivenOnCli(f) THEN CliValue(f) ELSE value[f]]
    BY <1>4 DEF ReadCommandLine
  <2>2. \A f \in Flags : value'[f] = Effective(f)
    BY <2>1 DEF SourceInv, Based, Effective
  <2>3. \A f \in Flags : Effective(f)' = Effective(f)
    BY <1>0 DEF Effective, GivenOnCli, CliValue, CliDelimiter, OnCli, LastInFile
  <2>4. QED
    BY <1>0, <2>1, <2>2, <2>3 DEF SourceInv, Settled, Late
<1>5. CASE CommandLineFails
  <2>1. value' = value /\ next' = next /\ pc' \in {"rejected", "crashed"}
    BY <1>5 DEF CommandLineFails, settings
  <2>2. QED
    BY <1>0, <2>1 DEF SourceInv, Settled, Late
<1>6. QED
  BY <1>1, <1>2, <1>3, <1>4, <1>5 DEF ReadConfig

\* A sequence of lines with one for f has a last one.
LEMMA LastEntry ==
    ASSUME file \in Seq(EntryType), NEW f, \E k \in DOMAIN file : file[k].flag = f
    PROVE  \E k \in DOMAIN file : LastInFile(f) = file[k] /\ file[k].flag = f
<1> DEFINE K == {k \in 1 .. Len(file) : file[k].flag = f}
<1>1. Len(file) \in Nat /\ K \in SUBSET (1 .. Len(file)) /\ K # {} /\ DOMAIN file = 1 .. Len(file)
  OBVIOUS
<1>2. PICK k \in K : \A j \in K : j <= k
  BY <1>1, Greatest
<1>3. ASSUME NEW j \in k + 1 .. Len(file)
      PROVE  file[j].flag # f
  <2>1. j \in 1 .. Len(file) /\ ~(j <= k)
    BY <1>1
  <2>2. QED
    BY <1>2, <2>1
<1>4. IsLast(k, Len(file), f)
  BY <1>2, <1>3 DEF IsLast
<1>5. LastInFile(f) = file[k]
  BY <1>4, LastIsOne
<1>6. QED
  BY <1>1, <1>5

\* -hm has one item.
LEMMA OneHostMode ==
    ASSUME Typed
    PROVE  Len(Effective("-hm")) = 1
<1>0. "-hm" \notin ListFlags /\ "-hm" # "-cf"
  BY DEF ListFlags
<1>1. ASSUME NEW entry \in EntryType, entry.flag = "-hm", NEW mode
      PROVE  Split(entry, mode) = entry.items /\ Len(entry.items) = 1
  BY <1>0, <1>1 DEF Split, EntryType
<1>2. CASE GivenOnCli("-hm")
  <2>1. OnCli("-hm") \in EntryType /\ OnCli("-hm").flag = "-hm"
    BY <1>2, FirstEntry DEF Typed
  <2>2. QED
    BY <1>0, <1>1, <1>2, <2>1 DEF Effective, CliValue
<1>3. CASE ~GivenOnCli("-hm") /\ GivenOnCli("-ff") /\ \E k \in DOMAIN file : file[k].flag = "-hm"
  <2>1. LastInFile("-hm") \in EntryType /\ LastInFile("-hm").flag = "-hm"
    BY <1>3, LastEntry DEF Typed
  <2>2. QED
    BY <1>1, <1>3, <2>1 DEF Effective
<1>4. CASE ~GivenOnCli("-hm") /\ ~(GivenOnCli("-ff") /\ \E k \in DOMAIN file : file[k].flag = "-hm")
  <2>1. Effective("-hm") = Defaults["-hm"]
    BY <1>4, Zenon DEF Effective
  <2>2. Defaults["-hm"] = <<"false">>
    BY DEF Defaults, Flags, IntFlags, BoolFlags
  <2>3. QED
    BY <2>1, <2>2
<1>5. QED
  BY <1>2, <1>3, <1>4

LEMMA ChecksSource ==
    ASSUME Typed, SourceInv, Discover \/ CheckConfig
    PROVE  SourceInv'
<1>1. CASE CheckHostCheck \/ CheckSwitches \/ CheckTimes \/ CheckPrio \/ Discover
  <2>1. UNCHANGED <<inputs, value, next>> /\ pc \in Settled
    BY <1>1 DEF CheckHostCheck, CheckSwitches, CheckTimes, CheckPrio, Discover, settings, Settled
  <2>2. pc' \in Settled \cup {"rejected", "crashed", "unavailable"}
    <3>1. CASE CheckHostCheck
      BY <3>1, Zenon DEF CheckHostCheck, Verdict, Settled
    <3>2. CASE CheckSwitches
      BY <3>2, Zenon DEF CheckSwitches, Verdict, Settled
    <3>3. CASE CheckTimes
      BY <3>3, Zenon DEF CheckTimes, Verdict, Settled
    <3>4. CASE CheckPrio
      BY <3>4, Zenon DEF CheckPrio, Verdict, Settled
    <3>5. CASE Discover
      BY <3>5 DEF Discover, Settled
    <3>6. QED
      BY <1>1, <3>1, <3>2, <3>3, <3>4, <3>5
  <2>3. QED
    BY <2>1, <2>2, SettingsKept
<1>2. CASE CheckCounts \/ CheckFeatures \/ CheckCpu \/ CheckPurpose \/ Announce
  <2>1. UNCHANGED <<inputs, value, next>> /\ scaleOut' = scaleOut /\ pc \in Late \ {"hostmode"}
    BY <1>2 DEF CheckCounts, CheckFeatures, CheckCpu, CheckPurpose, Announce, settings, Late
  <2>2. pc' \in (Late \ {"hostmode"}) \cup {"rejected", "crashed", "unavailable"}
    <3>1. CASE CheckCounts
      BY <3>1, Zenon DEF CheckCounts, Verdict, Late
    <3>2. CASE CheckFeatures
      BY <3>2, Zenon DEF CheckFeatures, Verdict, Late
    <3>3. CASE CheckCpu
      BY <3>3, Zenon DEF CheckCpu, Verdict, Late
    <3>4. CASE CheckPurpose
      BY <3>4, Zenon DEF CheckPurpose, Verdict, Late
    <3>5. CASE Announce
      BY <3>5, Zenon DEF Announce, Verdict, Late
    <3>6. QED
      BY <1>2, <3>1, <3>2, <3>3, <3>4, <3>5
  <2>3. QED
    BY <2>1, <2>2, SettingsKept
<1>3. CASE CheckHostMode
  <2>1. /\ pc = "hostmode" /\ file' = file /\ cli' = cli /\ next' = next /\ scaleOut' = scaleOut
        /\ value' = [value EXCEPT !["-hm"] = IF True("-hm") /\ ~scaleOut THEN <<"false">> ELSE @]
    BY <1>3 DEF CheckHostMode, inputs
  <2>2. /\ pc' \in {"rejected", "crashed", "counts"}
        /\ pc' = "counts" => IsBool(value["-hm"][1])
    BY <1>3, Zenon DEF CheckHostMode, Verdict
  <2>3. \A f \in Flags : Effective(f)' = Effective(f)
    BY <2>1 DEF Effective, GivenOnCli, CliValue, CliDelimiter, OnCli, LastInFile
  <2>4. \A f \in Flags : value[f] = Effective(f)
    BY <2>1 DEF SourceInv, Settled
  <2>5. value \in [Flags -> Seq(Texts)] /\ "-hm" \in Flags
    BY TheFlags DEF Typed
  <2>6. ASSUME pc' = "counts", ~scaleOut
        PROVE  value'["-hm"] = <<"false">>
    <3>1. CASE True("-hm")
      BY <2>1, <2>5, <2>6, <3>1
    <3>2. CASE ~True("-hm")
      <4> DEFINE hm == value["-hm"]
      <4>1. hm \in Seq(Texts) /\ Len(hm) = 1
        BY <2>4, <2>5, OneHostMode
      <4>2. hm = <<hm[1]>>
        BY <4>1
      <4>3. hm[1] = "false"
        BY <2>2, <2>6, <3>2, <4>2 DEF IsBool, True
      <4>4. value'["-hm"] = hm
        BY <2>1, <2>5, <3>2
      <4>5. QED
        BY <4>2, <4>3, <4>4
    <3>3. QED
      BY <3>1, <3>2
  <2>7. ASSUME NEW f \in Flags, f # "-hm" \/ scaleOut
        PROVE  value'[f] = Effective(f)
    BY <2>1, <2>4, <2>5, <2>7
  <2>8. pc' = "counts" =>
          \A f \in Flags : value'[f] = IF f = "-hm" /\ ~scaleOut' THEN <<"false">> ELSE Effective(f)'
    BY <2>1, <2>3, <2>6, <2>7
  <2>9. QED
    BY <2>1, <2>2, <2>8 DEF SourceInv, Settled, Late
<1>4. QED
  BY <1>1, <1>2, <1>3 DEF CheckConfig

LEMMA SourceInit == ConfigInit => SourceInv
<1> SUFFICES ASSUME ConfigInit PROVE SourceInv
  OBVIOUS
<1>1. /\ next = 1 /\ pc = "arguments" /\ file \in Seq(EntryType) /\ Len(file) \in Nat
      /\ value = Defaults
  BY ConfigInitInv DEF ConfigInit, ConfigInv, Typed
<1>2. \A f \in Flags : FromFile(0, f)
  BY <1>1 DEF FromFile
<1>3. QED
  BY <1>1, <1>2 DEF SourceInv, Settled, Late

LEMMA SourceStep ==
    ASSUME Typed, SourceInv, [ConfigNext]_configVars
    PROVE  SourceInv'
<1>1. CASE ConfigNext
  BY <1>1, ReadingSource, ChecksSource DEF ConfigNext
<1>2. CASE UNCHANGED configVars
  <2>1. /\ file' = file /\ cli' = cli /\ value' = value /\ next' = next /\ pc' = pc /\ scaleOut' = scaleOut
    BY <1>2 DEF configVars, inputs, settings
  <2>2. \A f \in Flags : Effective(f)' = Effective(f) /\ Based(f)' = Based(f)
    BY <2>1 DEF Effective, Based, GivenOnCli, CliValue, CliDelimiter, OnCli, LastInFile
  <2>3. \A n \in Nat, f \in Flags : FromFile(n, f)' <=> FromFile(n, f)
    BY <2>1 DEF FromFile, IsLast
  <2>4. GivenOnCli("-ff")' <=> GivenOnCli("-ff")
    BY <2>1 DEF GivenOnCli
  <2>5. QED
    BY <2>1, <2>2, <2>3, <2>4 DEF SourceInv
<1>3. QED
  BY <1>1, <1>2

\* The command line overwrites the file and the file the defaults, for any
\* of them and in whatever order (hanasitter.py:989-1117).
THEOREM SettingsSafety == ConfigSpec => []EverySettingHasItsSource
<1>1. ConfigInit => ConfigInv /\ SourceInv
  BY ConfigInitInv, SourceInit
<1>2. ConfigInv /\ SourceInv /\ [ConfigNext]_configVars => ConfigInv' /\ SourceInv'
  BY ConfigStepKeeps, SourceStep DEF ConfigInv
<1>3. SourceInv => EverySettingHasItsSource
  BY DEF SourceInv, EverySettingHasItsSource, Late
<1>4. QED
  BY <1>1, <1>2, <1>3, PTL DEF ConfigSpec

----------------------------------------------------------------------------
(* Types, and the crashes. *)

\* What ConfigTypeOK says beyond Typed and SourceInv.
Sourced ==
    /\ \A f \in Flags : source[f] = "cli" => GivenOnCli(f)
    /\ \A f \in Flags : source[f] = "file" => GivenOnCli("-ff")
    /\ delimiter \in STRING
    /\ scaleOut \in BOOLEAN
    /\ pc \in Stages \cup {"rejected", "crashed", "unavailable"}

LEMMA AreStrings == Texts \subseteq STRING /\ "1" \in STRING
<1>1. Texts \subseteq STRING
  BY ConfigAssumption
<1>2. QED
  BY <1>1, TextFacts

LEMMA TextOfEntry ==
    ASSUME NEW entry \in EntryType
    PROVE  entry.items[1] \in STRING
<1>1. entry.items \in Seq(Texts) /\ entry.items # <<>>
  BY DEF EntryType
<1>2. 1 \in 1 .. Len(entry.items)
  BY <1>1
<1>3. entry.items[1] \in Texts
  BY <1>1, <1>2
<1>4. QED
  BY <1>3, AreStrings

LEMMA ChecksSourced ==
    ASSUME Sourced, Discover \/ CheckConfig
    PROVE  Sourced'
<1>1. /\ cli' = cli /\ source' = source /\ delimiter' = delimiter
      /\ scaleOut' \in BOOLEAN
  <2>1. CASE Discover
    BY <2>1 DEF Discover, inputs, settings
  <2>2. CASE CheckHostCheck \/ CheckSwitches \/ CheckTimes \/ CheckPrio \/ CheckCounts
    BY <2>2 DEF Sourced, CheckHostCheck, CheckSwitches, CheckTimes, CheckPrio, CheckCounts, inputs, settings
  <2>3. CASE CheckFeatures \/ CheckCpu \/ CheckPurpose \/ Announce
    BY <2>3 DEF Sourced, CheckFeatures, CheckCpu, CheckPurpose, Announce, inputs, settings
  <2>4. CASE CheckHostMode
    BY <2>4 DEF Sourced, CheckHostMode, inputs
  <2>5. QED
    BY <2>1, <2>2, <2>3, <2>4 DEF CheckConfig
<1>2. pc' \in Stages \cup {"rejected", "crashed", "unavailable"}
  <2>1. CASE CheckHostCheck
    BY <2>1, Zenon DEF CheckHostCheck, Verdict, Stages
  <2>2. CASE CheckSwitches
    BY <2>2, Zenon DEF CheckSwitches, Verdict, Stages
  <2>3. CASE CheckTimes
    BY <2>3, Zenon DEF CheckTimes, Verdict, Stages
  <2>4. CASE CheckPrio
    BY <2>4, Zenon DEF CheckPrio, Verdict, Stages
  <2>5. CASE CheckHostMode
    BY <2>5, Zenon DEF CheckHostMode, Verdict, Stages
  <2>6. CASE CheckCounts
    BY <2>6, Zenon DEF CheckCounts, Verdict, Stages
  <2>7. CASE CheckFeatures
    BY <2>7, Zenon DEF CheckFeatures, Verdict, Stages
  <2>8. CASE CheckCpu
    BY <2>8, Zenon DEF CheckCpu, Verdict, Stages
  <2>9. CASE CheckPurpose
    BY <2>9, Zenon DEF CheckPurpose, Verdict, Stages
  <2>10. CASE Announce
    BY <2>10, Zenon DEF Announce, Verdict, Stages
  <2>11. CASE Discover
    BY <2>11 DEF Discover, Stages
  <2>12. QED
    BY <2>1, <2>2, <2>3, <2>4, <2>5, <2>6, <2>7, <2>8, <2>9, <2>10, <2>11 DEF CheckConfig
<1>3. QED
  BY <1>1, <1>2 DEF Sourced, GivenOnCli

LEMMA ReadingSourced ==
    ASSUME Typed, SourceInv, Sourced, ReadConfig
    PROVE  Sourced'
<1>0. cli' = cli /\ scaleOut' = scaleOut /\ cli \in Seq(EntryType) /\ file \in Seq(EntryType)
  BY DEF Typed, ReadConfig, ReadArguments, ReadLine, FileEnds, ReadCommandLine, CommandLineFails, inputs
<1>1. pc' \in Stages \cup {"rejected", "crashed", "unavailable"}
  BY DEF Sourced, ReadConfig, ReadArguments, ReadLine, FileEnds, ReadCommandLine, CommandLineFails, Stages
<1>2. delimiter' \in STRING
  <2>1. CASE ReadLine
    <3>1. next \in DOMAIN file
      <4>1. Len(file) \in Nat /\ next \in 1 .. Len(file) + 1 /\ next <= Len(file)
        BY <1>0, <2>1 DEF ReadLine, SourceInv
      <4>2. QED
        BY <1>0, <4>1
    <3>2. file[next].items[1] \in STRING
      BY <1>0, <3>1, TextOfEntry
    <3>3. delimiter' = file[next].items[1] \/ delimiter' = "1"
      BY <2>1, Zenon DEF ReadLine
    <3>4. QED
      BY <3>2, <3>3, AreStrings
  <2>2. CASE ReadCommandLine
    <3>1. GivenOnCli("-cd") => OnCli("-cd").items[1] \in STRING
      BY <1>0, FirstEntry, TextOfEntry
    <3>2. CliDelimiter \in STRING
      BY <3>1, AreStrings DEF CliDelimiter
    <3>3. QED
      BY <2>2, <3>2 DEF ReadCommandLine
  <2>3. CASE ReadArguments \/ FileEnds \/ CommandLineFails
    BY <2>3 DEF ReadArguments, FileEnds, CommandLineFails, Sourced
  <2>4. QED
    BY <2>1, <2>2, <2>3 DEF ReadConfig
<1>3. ASSUME NEW f \in Flags
      PROVE  /\ source'[f] = "cli" => GivenOnCli(f)
             /\ source'[f] = "file" => GivenOnCli("-ff")
  <2>1. CASE ReadLine
    <3>1. pc = "file" /\ GivenOnCli("-ff")
      BY <2>1 DEF ReadLine, SourceInv
    <3>2. source'[f] = "file" \/ source'[f] = source[f]
      BY <2>1 DEF ReadLine, Typed, settings
    <3>3. QED
      BY <3>1, <3>2 DEF Sourced
  <2>2. CASE ReadCommandLine
    BY <2>2 DEF ReadCommandLine, Sourced
  <2>3. CASE ReadArguments \/ FileEnds \/ CommandLineFails
    BY <2>3 DEF ReadArguments, FileEnds, CommandLineFails, Sourced, settings
  <2>4. QED
    BY <2>1, <2>2, <2>3 DEF ReadConfig
<1>4. QED
  BY <1>0, <1>1, <1>2, <1>3 DEF Sourced, GivenOnCli

\* All that is known of a start at any stage.
StartInv == ConfigInv /\ SourceInv /\ Sourced

LEMMA StartInvInit == ConfigInit => StartInv
<1>1. ConfigInit => Sourced
  BY AreStrings DEF ConfigInit, Sourced, Stages
<1>2. QED
  BY <1>1, ConfigInitInv, SourceInit DEF StartInv

LEMMA StartInvStep ==
    ASSUME StartInv, [ConfigNext]_configVars
    PROVE  StartInv'
<1>1. ConfigInv' /\ SourceInv'
  BY ConfigStepKeeps, SourceStep DEF StartInv, ConfigInv
<1>2. CASE ConfigNext
  BY <1>1, <1>2, ReadingSourced, ChecksSourced DEF StartInv, ConfigInv, ConfigNext
<1>3. CASE UNCHANGED configVars
  BY <1>1, <1>3 DEF StartInv, Sourced, GivenOnCli, configVars, inputs, settings
<1>4. QED
  BY <1>2, <1>3

\* The settings stay lists of texts, and know where they come from.
THEOREM ConfigTypeCorrect == ConfigSpec => []ConfigTypeOK
<1>1. StartInv => ConfigTypeOK
  BY DEF StartInv, ConfigInv, Typed, SourceInv, Sourced, ConfigTypeOK
<1>2. QED
  BY <1>1, StartInvInit, StartInvStep, PTL DEF ConfigSpec

AsDocumented ==
    /\ \A k \in DOMAIN cli : Documented(cli[k]) /\ cli[k].flag \notin IntSwitches
    /\ \A k \in DOMAIN file : Documented(file[k])

\* A setting is its default, something that could not be divided, or what a
\* documented argument says.
LEMMA Origin ==
    ASSUME Typed, AsDocumented, NEW f \in Flags
    PROVE  \/ Effective(f) = Defaults[f] \/ Effective(f) = <<"unsplit">> \/ Effective(f) = <<>>
           \/ \E e \in EntryType : Documented(e) /\ e.flag = f /\ Effective(f) = e.items
<1>1. ASSUME NEW entry, NEW mode
      PROVE  Split(entry, mode) = entry.items \/ Split(entry, mode) = <<"unsplit">>
  BY Zenon DEF Split
<1>2. CASE GivenOnCli(f)
  <2>1. /\ OnCli(f) \in EntryType /\ OnCli(f).flag = f
        /\ \E k \in DOMAIN cli : OnCli(f) = cli[k]
    BY <1>2, FirstEntry DEF Typed
  <2>2. Documented(OnCli(f))
    BY <2>1 DEF AsDocumented
  <2>3. Effective(f) = <<>> \/ Effective(f) = Split(OnCli(f), CliDelimiter)
    BY <1>2, Zenon DEF Effective, CliValue
  <2>4. QED
    BY <1>1, <2>1, <2>2, <2>3
<1>3. CASE ~GivenOnCli(f) /\ GivenOnCli("-ff") /\ \E k \in DOMAIN file : file[k].flag = f
  <2>1. PICK k \in DOMAIN file : LastInFile(f) = file[k] /\ file[k].flag = f
    BY <1>3, LastEntry DEF Typed
  <2>2. file[k] \in EntryType /\ Documented(file[k])
    BY <2>1 DEF Typed, AsDocumented
  <2>3. Effective(f) = Split(file[k], "1")
    BY <1>3, <2>1 DEF Effective
  <2>4. QED
    BY <1>1, <2>1, <2>2, <2>3
<1>4. CASE ~GivenOnCli(f) /\ ~(GivenOnCli("-ff") /\ \E k \in DOMAIN file : file[k].flag = f)
  BY <1>4, Zenon DEF Effective
<1>5. QED
  BY <1>2, <1>3, <1>4

\* Documented priorities are the numbers 1 to 4.
LEMMA PriorityItems ==
    ASSUME Typed, AsDocumented, NEW rp, rp = Effective("-rp"), Len(rp) = 4
    PROVE  \A k \in DOMAIN rp : IsInt(rp[k]) /\ IntOf[rp[k]] \in 1 .. 4
<1>1. \A t \in {"1", "2", "3", "4"} : IsInt(t) /\ IntOf[t] \in 1 .. 4
  <2>1. /\ {"0", "1", "2", "3", "4", "60", "100", "3600", "-1"} \subseteq DOMAIN IntOf
        /\ IntOf["1"] = 1 /\ IntOf["2"] = 2 /\ IntOf["3"] = 3 /\ IntOf["4"] = 4
    BY ConfigAssumption, Zenon
  <2>2. QED
    BY <2>1 DEF IsInt
<1>2. CASE rp = Defaults["-rp"]
  <2>1. rp = <<"1", "2", "3", "4">>
    BY <1>2 DEF Defaults, Flags, ListFlags
  <2>2. QED
    BY <1>1, <2>1
<1>3. ASSUME NEW e \in EntryType, Documented(e), e.flag = "-rp", rp = e.items
      PROVE  \A k \in DOMAIN rp : IsInt(rp[k]) /\ IntOf[rp[k]] \in 1 .. 4
  BY <1>1, <1>3, Zenon DEF Documented
<1>4. rp # <<"unsplit">> /\ rp # <<>>
  OBVIOUS
<1>5. QED
  BY <1>2, <1>3, <1>4, Origin, TheFlags

\* Documented items of -cpu are numbers.
LEMMA CpuItems ==
    ASSUME Typed, AsDocumented, NEW cpu, cpu = Effective("-cpu"), Len(cpu) = 4
    PROVE  \A k \in DOMAIN cpu : IsInt(cpu[k])
<1>0. "-cpu" \in Flags
  BY DEF Flags, ListFlags
<1>1. CASE cpu = Defaults["-cpu"]
  <2>1. cpu = <<"0", "0", "0", "100">>
    BY <1>1 DEF Defaults, Flags, ListFlags
  <2>2. "0" \in DOMAIN IntOf /\ "100" \in DOMAIN IntOf
    BY ConfigAssumption
  <2>3. QED
    BY <2>1, <2>2 DEF IsInt
<1>2. ASSUME NEW e \in EntryType, Documented(e), e.flag = "-cpu", cpu = e.items
      PROVE  \A k \in DOMAIN cpu : IsInt(cpu[k])
  BY <1>2, Zenon DEF Documented, IsDigit
<1>3. cpu # <<"unsplit">> /\ cpu # <<>>
  OBVIOUS
<1>4. QED
  BY <1>0, <1>1, <1>2, <1>3, Origin

\* Documented items of -cf are not empty.
LEMMA FeatureItems ==
    ASSUME Typed, AsDocumented, NEW cf, cf = Effective("-cf"), Len(cf) # 1
    PROVE  cf \in Seq(Texts) /\ \A k \in 1 .. Len(cf) : cf[k] # ""
<1>0. "-cf" \in Flags
  BY DEF Flags, ListFlags
<1>1. CASE cf = Defaults["-cf"] \/ cf = <<>>
  <2>1. cf = <<>>
    BY <1>1 DEF Defaults, Flags, ListFlags
  <2>2. <<>> \in Seq(Texts) /\ Len(<<>>) = 0 /\ 1 .. 0 = {}
    OBVIOUS
  <2>3. QED
    BY <2>1, <2>2, Zenon
<1>2. ASSUME NEW e \in EntryType, Documented(e), e.flag = "-cf", cf = e.items
      PROVE  cf \in Seq(Texts) /\ \A k \in 1 .. Len(cf) : cf[k] # ""
  <2>1. cf \in Seq(Texts)
    BY <1>2 DEF EntryType
  <2>2. \A k \in DOMAIN cf : cf[k] # ""
    BY <1>2, Zenon DEF Documented
  <2>3. DOMAIN cf = 1 .. Len(cf)
    BY <2>1
  <2>4. QED
    BY <2>1, <2>2, <2>3, Zenon
<1>3. cf # <<"unsplit">>
  OBVIOUS
<1>4. QED
  BY <1>0, <1>1, <1>2, <1>3, Origin, Zenon

\* No check ends in an exception if what it looks at is documented.
LEMMA ChecksCrash ==
    ASSUME StartInv, CheckConfig, pc' = "crashed"
    PROVE  ~AsDocumented
<1>1. Typed /\ \A f \in Flags : source[f] = "cli" => GivenOnCli(f)
  BY DEF StartInv, ConfigInv, Sourced
<1>2. \A f \in IntSwitches : GivenOnCli(f) => ~AsDocumented
  BY DEF GivenOnCli, AsDocumented
<1>3. "-so" \in Flags \cap IntSwitches /\ "-hc" \in Flags \cap IntSwitches
  BY DEF Flags, BoolFlags, IntSwitches
<1>4. CASE CheckHostCheck
  <2>1. source["-hc"] = "cli"
    BY <1>4, Zenon DEF CheckHostCheck, Verdict
  <2>2. QED
    BY <1>1, <1>2, <1>3, <2>1
<1>5. CASE CheckSwitches
  <2>1. source["-so"] = "cli"
    BY <1>5, Zenon DEF CheckSwitches, Verdict
  <2>2. QED
    BY <1>1, <1>2, <1>3, <2>1
<1>6. CASE CheckPrio
  <2> DEFINE rp == value["-rp"]
  <2>1. Len(rp) = 4 /\ \E t \in Items("-rp") : ~IsInt(t)
    BY <1>6, Zenon DEF CheckPrio, Verdict
  <2>2. rp = Effective("-rp")
    BY <1>6, TheFlags DEF StartInv, SourceInv, Settled, CheckPrio
  <2>3. AsDocumented => \A k \in DOMAIN rp : IsInt(rp[k])
    BY <1>1, <2>1, <2>2, PriorityItems
  <2>4. QED
    BY <2>1, <2>3, Zenon DEF Items
<1>7. CASE Announce
  <2> DEFINE rp == value["-rp"]
  <2>1. pc = "announce" /\ \E t \in Items("-rp") : IntOf[t] \notin 1 .. 4
    BY <1>7, Zenon DEF Announce, Verdict
  <2>2. rp = Effective("-rp") /\ Len(rp) = 4
    BY <2>1, TheFlags DEF StartInv, SourceInv, ConfigInv, PrioChecked, Late
  <2>3. AsDocumented => \A k \in DOMAIN rp : IntOf[rp[k]] \in 1 .. 4
    BY <1>1, <2>2, PriorityItems
  <2>4. QED
    BY <2>1, <2>3, Zenon DEF Items
<1>8. CASE CheckCpu
  <2> DEFINE cpu == value["-cpu"]
  <2>1. pc = "cpu" /\ Len(cpu) = 4 /\ \E t \in Items("-cpu") : ~IsInt(t)
    BY <1>8, Zenon DEF CheckCpu, Verdict
  <2>2. "-cpu" \in Flags /\ "-cpu" # "-hm"
    BY DEF Flags, ListFlags
  <2>3. cpu = Effective("-cpu")
    BY <2>1, <2>2 DEF StartInv, SourceInv, Late
  <2>4. AsDocumented => \A k \in DOMAIN cpu : IsInt(cpu[k])
    BY <1>1, <2>1, <2>3, CpuItems
  <2>5. QED
    BY <2>1, <2>4, Zenon DEF Items
<1>9. CASE CheckFeatures
  <2> DEFINE cf == value["-cf"]
  <2>1. pc = "features" /\ Len(cf) % 4 = 0 /\ \E k \in 1 .. NumFeatures : FeatureCrashes(k)
    BY <1>9, Zenon DEF CheckFeatures, Verdict
  <2>2. "-cf" \in Flags /\ "-cf" # "-hm"
    BY DEF Flags, ListFlags
  <2>3. cf = Effective("-cf")
    BY <2>1, <2>2 DEF StartInv, SourceInv, Late
  <2>4. Len(cf) \in Nat /\ Len(cf) # 1
    <3>1. cf \in Seq(Texts)
      BY <1>1, <2>2 DEF Typed
    <3>2. Len(cf) \in Nat
      BY <3>1
    <3>3. \A n \in Nat : n % 4 = 0 => n # 1
      OBVIOUS
    <3>4. QED
      BY <2>1, <3>2, <3>3, Zenon
  <2>5. ASSUME NEW k \in 1 .. NumFeatures
        PROVE  4 * k \in 1 .. Len(cf) /\ 4 * k - 1 \in 1 .. Len(cf)
    <3>1. \A n \in Nat : \A j \in 1 .. n \div 4 : 4 * j \in 1 .. n /\ 4 * j - 1 \in 1 .. n
      OBVIOUS
    <3>2. k \in 1 .. Len(cf) \div 4
      BY <2>5, Zenon DEF NumFeatures
    <3>3. QED
      BY <2>4, <3>1, <3>2, Zenon
  <2>6. AsDocumented => \A k \in 1 .. Len(cf) : cf[k] # ""
    BY <1>1, <2>3, <2>4, FeatureItems, Zenon
  <2>7. QED
    BY <2>1, <2>5, <2>6, Zenon DEF FeatureCrashes
<1>10. CASE CheckTimes \/ CheckHostMode \/ CheckCounts \/ CheckPurpose
  <2>1. pc' # "crashed"
    <3>1. CASE CheckTimes
      BY <3>1, Zenon DEF CheckTimes, Verdict
    <3>2. CASE CheckHostMode
      BY <3>2, Zenon DEF CheckHostMode, Verdict
    <3>3. CASE CheckCounts
      BY <3>3, Zenon DEF CheckCounts, Verdict
    <3>4. CASE CheckPurpose
      BY <3>4, Zenon DEF CheckPurpose, Verdict
    <3>5. QED
      BY <1>10, <3>1, <3>2, <3>3, <3>4
  <2>2. QED
    BY <2>1
<1>11. QED
  BY <1>4, <1>5, <1>6, <1>7, <1>8, <1>9, <1>10 DEF CheckConfig

LEMMA CrashesAreUndocumented ==
    ASSUME StartInv, ConfigNext, pc' = "crashed"
    PROVE  ~AsDocumented
<1>1. CASE CheckConfig
  BY <1>1, ChecksCrash
<1>2. CASE ReadConfig
  <2>1. CommandLineFails /\ CliCrashes
    BY <1>2 DEF ReadConfig, ReadArguments, ReadLine, FileEnds, ReadCommandLine, CommandLineFails
  <2>2. PICK f \in IntSwitches : GivenOnCli(f)
    BY <2>1, Zenon DEF CliCrashes
  <2>3. QED
    BY <2>2 DEF GivenOnCli, AsDocumented
<1>3. CASE Discover
  BY <1>3 DEF Discover
<1>4. QED
  BY <1>1, <1>2, <1>3 DEF ConfigNext

\* What --help documents is accepted or rejected with a message, for any
\* file and command line (hanasitter.py:1209-1510).
THEOREM CrashSafety == ConfigSpec => []WrongCombinationsAreRejected
<1> DEFINE Rejected == pc = "crashed" => ~AsDocumented
<1>1. ConfigInit => Rejected
  BY DEF ConfigInit
<1>2. StartInv /\ Rejected /\ [ConfigNext]_configVars => Rejected'
  <2> SUFFICES ASSUME StartInv, Rejected, [ConfigNext]_configVars, pc' = "crashed"
               PROVE  ~AsDocumented'
    OBVIOUS
  <2>1. UNCHANGED inputs
    BY DEF ConfigNext, ReadConfig, ReadArguments, ReadLine, FileEnds, ReadCommandLine, CommandLineFails,
       Discover, CheckConfig, CheckHostCheck, CheckSwitches, CheckTimes, CheckPrio, CheckHostMode,
       CheckCounts, CheckFeatures, CheckCpu, CheckPurpose, Announce, configVars
  <2>2. ~AsDocumented
    BY CrashesAreUndocumented DEF configVars
  <2>3. QED
    BY <2>1, <2>2 DEF AsDocumented, inputs
<1>3. Rejected => WrongCombinationsAreRejected
  BY DEF AsDocumented, WrongCombinationsAreRejected
<1>4. QED
  BY <1>1, <1>2, <1>3, StartInvInit, StartInvStep, PTL DEF ConfigSpec
=============================================================================
