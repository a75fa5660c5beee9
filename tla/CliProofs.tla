----------------------------- MODULE CliProofs -----------------------------
(***************************************************************************)
(* What the interpreter keeps true whatever lines it is given, however     *)
(* many, and whatever the commands make of them.  The first part needs     *)
(* only the interpreter; the second goes through every command for what    *)
(* its reply says of its effect; the third counts pings and results.       *)
(***************************************************************************)
EXTENDS Cli, SequenceTheorems, TLAPS

(* The handlers find the server: a line has been read since the start      *)
(* whenever the program owes one to the stack.                             *)
ServerInv ==
    /\ lines \in Nat
    /\ lines # 0 => mServer
    /\ callbacks # {} => mServer
    /\ fault => ~mServer

LEMMA ServerInit == Init => ServerInv
BY DEF Init, Interpreter, ServerInv

LEMMA RestartServer == Restart => ServerInv'
BY DEF Restart, ServerInv

(* A step that reads a line.                                               *)
LEMMA LineServer ==
    ASSUME ServerInv, NEW args, ReadLine(args)
    PROVE  ServerInv'
BY DEF ServerInv, ReadLine

LEMMA ServerStep == ServerInv /\ [Next]_vars => ServerInv'
<1> SUFFICES ASSUME ServerInv, [Next]_vars PROVE ServerInv'
  OBVIOUS
<1>1. CASE Command
  BY <1>1, LineServer DEF Command
<1>2. ASSUME NEW line \in Lines, NEW api \in ApiOutcomes,
             ProcessUdp(line, api) \/ ProcessDns(line, api)
      PROVE  ServerInv'
  BY <1>2, LineServer DEF ProcessUdp, ProcessDns
<1>3. ASSUME NEW line \in Lines, NEW sends \in BOOLEAN,
             ProcessPing(line, sends) \/ pingTest(line, sends)
      PROVE  ServerInv'
  BY <1>3, LineServer DEF ProcessPing, pingTest
<1>4. ASSUME NEW line \in Lines, routerPeriodicTest(line)
      PROVE  ServerInv'
  BY <1>4, LineServer DEF routerPeriodicTest
<1>5. CASE TooManyArgs
  BY <1>5 DEF TooManyArgs, ServerInv
<1>6. CASE ProcessReset \/ ProcessFactoryReset \/ PowerCycle
  BY <1>6, RestartServer DEF ProcessReset, ProcessFactoryReset, PowerCycle
<1>7. CASE Type \/ UdpTimer \/ HandleRouterTimer
  <2>1. UNCHANGED <<mServer, lines, callbacks, fault>>
    BY <1>7 DEF Type, UdpTimer, HandleRouterTimer, inputVars
  <2> QED
    BY <2>1 DEF ServerInv
<1>8. ASSUME NEW sends \in BOOLEAN, PingTimer(sends)
      PROVE  ServerInv'
  BY <1>8 DEF PingTimer, inputVars, ServerInv
<1>9. CASE HandleIcmpReceive \/ HandleDiagnosticGetResponse
  <2>1. /\ UNCHANGED <<mServer, lines, callbacks>>
        /\ fault' = ~mServer
    BY <1>9 DEF HandleIcmpReceive, HandleDiagnosticGetResponse, inputVars
  <2> QED
    BY <2>1, Zenon DEF ServerInv
<1>10. ASSUME NEW ok \in BOOLEAN, HandleDnsResponse(ok)
       PROVE  ServerInv'
  BY <1>10 DEF HandleDnsResponse, inputVars, ServerInv
<1>11. ASSUME NEW end \in BOOLEAN, HandleActiveScanResult(end)
       PROVE  ServerInv'
  BY <1>11 DEF HandleActiveScanResult, inputVars, ServerInv
<1>12. CASE HandleEnergyReport \/ HandlePanIdConflict \/ HandleLinkPcapReceive
            \/ HandleJoinerCallback
  BY <1>12 DEF HandleEnergyReport, HandlePanIdConflict, HandleLinkPcapReceive,
     HandleJoinerCallback, Prints, inputVars, ServerInv
<1>13. CASE UNCHANGED vars
  BY <1>13 DEF vars, inputVars, ServerInv
<1> QED
  BY <1>1, <1>2, <1>3, <1>4, <1>5, <1>6, <1>7, <1>8, <1>9, <1>10, <1>11, <1>12, <1>13
     DEF Next, ProcessLine, Event

(* No line read, no callback owed: only then can an answer find the server *)
(* NULL (HandleIcmpReceive, HandleDiagnosticGetResponse).                  *)
THEOREM ServerKnown == Spec => []FaultBeforeFirstLine
<1>1. ServerInv => FaultBeforeFirstLine
  BY DEF ServerInv, FaultBeforeFirstLine
<1> QED
  BY <1>1, ServerInit, ServerStep, PTL DEF Spec

----------------------------------------------------------------------------
LEMMA ResolvingStep == ResolvingIsPending /\ [Next]_vars => ResolvingIsPending'
<1> SUFFICES ASSUME ResolvingIsPending, [Next]_vars PROVE ResolvingIsPending'
  OBVIOUS
<1> USE DEF ResolvingIsPending
<1>1. CASE Command
  BY <1>1 DEF Command, Reports
<1>2. ASSUME NEW line \in Lines, NEW api \in ApiOutcomes, ProcessUdp(line, api)
      PROVE  ResolvingIsPending'
  BY <1>2 DEF ProcessUdp
<1>3. ASSUME NEW line \in Lines, NEW api \in ApiOutcomes, ProcessDns(line, api)
      PROVE  ResolvingIsPending'
  BY <1>3 DEF ProcessDns
<1>4. ASSUME NEW line \in Lines, NEW sends \in BOOLEAN,
             ProcessPing(line, sends) \/ pingTest(line, sends)
      PROVE  ResolvingIsPending'
  BY <1>4 DEF ProcessPing, pingTest
<1>5. ASSUME NEW line \in Lines, routerPeriodicTest(line)
      PROVE  ResolvingIsPending'
  BY <1>5 DEF routerPeriodicTest
<1>6. CASE TooManyArgs
  BY <1>6 DEF TooManyArgs
<1>7. CASE ProcessReset \/ ProcessFactoryReset \/ PowerCycle
  BY <1>7 DEF ProcessReset, ProcessFactoryReset, PowerCycle, Restart
<1>8. CASE Type \/ UdpTimer \/ HandleRouterTimer
  BY <1>8 DEF Type, UdpTimer, HandleRouterTimer
<1>9. ASSUME NEW sends \in BOOLEAN, PingTimer(sends)
      PROVE  ResolvingIsPending'
  BY <1>9 DEF PingTimer
<1>10. CASE HandleIcmpReceive \/ HandleDiagnosticGetResponse
  BY <1>10 DEF HandleIcmpReceive, HandleDiagnosticGetResponse
<1>11. ASSUME NEW ok \in BOOLEAN, HandleDnsResponse(ok)
       PROVE  ResolvingIsPending'
  BY <1>11 DEF HandleDnsResponse
<1>12. ASSUME NEW end \in BOOLEAN, HandleActiveScanResult(end)
       PROVE  ResolvingIsPending'
  BY <1>12 DEF HandleActiveScanResult
<1>13. CASE HandleEnergyReport \/ HandlePanIdConflict \/ HandleLinkPcapReceive
            \/ HandleJoinerCallback
  BY <1>13 DEF HandleEnergyReport, HandlePanIdConflict, HandleLinkPcapReceive,
     HandleJoinerCallback, Prints
<1>14. CASE UNCHANGED vars
  BY <1>14 DEF vars
<1> QED
  BY <1>1, <1>2, <1>3, <1>4, <1>5, <1>6, <1>7, <1>8, <1>9, <1>10, <1>11, <1>12,
     <1>13, <1>14 DEF Next, ProcessLine, Event

(* mResolvingInProgress never blocks a query nobody is waiting for, nor    *)
(* lets a second one overwrite mResolvingHostname (ProcessDns).            *)
THEOREM QueryPending == Spec => []ResolvingIsPending
<1>1. Init => ResolvingIsPending
  BY DEF Init, Interpreter, ResolvingIsPending
<1> QED
  BY <1>1, ResolvingStep, PTL DEF Spec
----------------------------------------------------------------------------
(* The commands, for any arguments and any answer of the stack.  Most      *)
(* replies are of two kinds: nothing is changed (Shown, Refused), or the   *)
(* change is made exactly when the line says Done.                         *)
Changes(reply) ==
    \/ reply.result = "Error" /\ reply.made = {}
    \/ reply.result = "Done" /\ reply.made # {} /\ "scan" \notin reply.made

LEMMA Replies ==
    /\ Shown.result = "Done" /\ Shown.made = {}
    /\ Refused.result = "Error" /\ Refused.made = {}
    /\ \A change : Made(change).result = "Done" /\ Made(change).made = {change}
    /\ \A made : Silent(made).result = "None" /\ Silent(made).made = made
BY DEF Shown, Refused, Made, AppendResult, Silent

LEMMA MadeChanges ==
  /\ Changes(Refused)
  /\ \A change : change # "scan" => Changes(Made(change))
BY Replies DEF Changes

LEMMA CallChanges ==
  ASSUME NEW api, NEW change, change # "scan"
  PROVE  Changes(Call(api, change))
BY MadeChanges DEF Call, Verify

(* A setting without arguments is shown.                                   *)
LEMMA SettingShown ==
  ASSUME NEW command \in Settings, NEW api
  PROVE  Process(command, <<>>, api) \in {Shown, Refused}
BY SMT
   DEF Settings, Process, ProcessAutoStart, ProcessChannel, ProcessChildMax,
       ProcessChildTimeout, ProcessContextIdReuseDelay, ProcessDelayTimerMin,
       ProcessExtAddress, ProcessExtPanId, ProcessIfconfig, ProcessIpAddr,
       ProcessIpMulticastAddr, ProcessJoinerPort, ProcessLeaderPartitionId,
       ProcessLeaderWeight, ProcessMacFilter, PrintMacFilter, ProcessMasterKey,
       ProcessMode, ProcessNetworkIdTimeout, ProcessNetworkName, ProcessPanId,
       ProcessParentPriority, ProcessPollPeriod, ProcessPrefix, ProcessPrefixList,
       ProcessPromiscuous, ProcessPSKc, ProcessRoute, ProcessRouteList,
       ProcessRouterDowngradeThreshold, ProcessRouterRole, ProcessRouterSelectionJitter,
       ProcessRouterUpgradeThreshold, ProcessState, ProcessTxPower, Query, Verify,
       Setting, LongSetting, Choice

(* With arguments it is set; the seven left out here are taken one by one  *)
(* below.                                                                  *)
OneCall == Settings \ {"contextreusedelay", "ipaddr", "ipmaddr", "macfilter", "prefix",
                       "promiscuous", "route"}

LEMMA SettingSet ==
  ASSUME NEW command \in OneCall, NEW args, args # <<>>, NEW api
  PROVE  Changes(Process(command, args, api))
<1>1. /\ Changes(ProcessAutoStart(args, api))
      /\ Changes(ProcessChannel(args, api))
      /\ Changes(ProcessChildMax(args, api))
      /\ Changes(ProcessChildTimeout(args, api))
      /\ Changes(ProcessDelayTimerMin(args, api))
      /\ Changes(ProcessExtAddress(args, api))
      /\ Changes(ProcessExtPanId(args, api))
      /\ Changes(ProcessIfconfig(args, api))
      /\ Changes(ProcessJoinerPort(args, api))
      /\ Changes(ProcessLeaderPartitionId(args, api))
      /\ Changes(ProcessLeaderWeight(args, api))
      /\ Changes(ProcessMasterKey(args, api))
      /\ Changes(ProcessMode(args, api))
      /\ Changes(ProcessNetworkIdTimeout(args, api))
      /\ Changes(ProcessNetworkName(args, api))
      /\ Changes(ProcessPanId(args, api))
      /\ Changes(ProcessParentPriority(args, api))
      /\ Changes(ProcessPollPeriod(args, api))
      /\ Changes(ProcessPSKc(args, api))
      /\ Changes(ProcessRouterDowngradeThreshold(args, api))
      /\ Changes(ProcessRouterRole(args, api))
      /\ Changes(ProcessRouterSelectionJitter(args, api))
      /\ Changes(ProcessRouterUpgradeThreshold(args, api))
      /\ Changes(ProcessState(args, api))
      /\ Changes(ProcessTxPower(args, api))
  BY MadeChanges, CallChanges
     DEF ProcessAutoStart, ProcessChannel, ProcessChildMax, ProcessChildTimeout,
     ProcessDelayTimerMin, ProcessExtAddress, ProcessExtPanId, ProcessIfconfig,
     ProcessJoinerPort, ProcessLeaderPartitionId, ProcessLeaderWeight,
     ProcessMasterKey, ProcessMode, ProcessNetworkIdTimeout, ProcessNetworkName,
     ProcessPanId, ProcessParentPriority, ProcessPollPeriod, ProcessPSKc,
     ProcessRouterDowngradeThreshold, ProcessRouterRole,
     ProcessRouterSelectionJitter, ProcessRouterUpgradeThreshold, ProcessState,
     ProcessTxPower, Verify, Setting, LongSetting, Choice
<1>2. Process(command, args, api) \in
        {ProcessAutoStart(args, api), ProcessChannel(args, api),
         ProcessChildMax(args, api), ProcessChildTimeout(args, api),
         ProcessDelayTimerMin(args, api), ProcessExtAddress(args, api),
         ProcessExtPanId(args, api), ProcessIfconfig(args, api),
         ProcessJoinerPort(args, api), ProcessLeaderPartitionId(args, api),
         ProcessLeaderWeight(args, api), ProcessMasterKey(args, api),
         ProcessMode(args, api), ProcessNetworkIdTimeout(args, api),
         ProcessNetworkName(args, api), ProcessPanId(args, api),
         ProcessParentPriority(args, api), ProcessPollPeriod(args, api),
         ProcessPSKc(args, api), ProcessRouterDowngradeThreshold(args, api),
         ProcessRouterRole(args, api), ProcessRouterSelectionJitter(args, api),
         ProcessRouterUpgradeThreshold(args, api), ProcessState(args, api),
         ProcessTxPower(args, api)}
  BY DEF Process, OneCall, Settings
<1> QED
  BY <1>1, <1>2

(* What every reply keeps: a change that was made is not denied, one that  *)
(* was asked for is not claimed, and only a scan that is running has its   *)
(* result to come.                                                         *)
Honest(command, args, reply) ==
    /\ reply.result \in {"Done", "Error", "None"}
    /\ "scan" \in reply.made => reply.result = "None"
    /\ AsksOnly(command, args) => reply.made = {}
    /\ reply.result = "Error" /\ reply.made # {} => TwoCalls(command, args)
    /\ reply.result = "Done" /\ reply.made = {} =>
         AsksOnly(command, args) \/ Ignores(command, args)

LEMMA ChangesHonest ==
  ASSUME NEW command, NEW args, NEW reply, Changes(reply), ~AsksOnly(command, args)
  PROVE  Honest(command, args, reply)
BY DEF Changes, Honest

LEMMA ShownHonest ==
  ASSUME NEW command, NEW args
  PROVE  /\ Honest(command, args, Refused)
         /\ AsksOnly(command, args) => Honest(command, args, Shown)
         /\ Ignores(command, args) => Honest(command, args, Shown)
         /\ \A made : ~AsksOnly(command, args) => Honest(command, args, Silent(made))
         /\ Honest(command, args, Silent({}))
BY Replies DEF Honest

(* Sequences of words.                                                     *)
LEMMA TailEmpty ==
  ASSUME NEW args \in Seq(STRING), args # <<>>
  PROVE  /\ Tail(args) \in Seq(STRING)
         /\ Len(args) \in Nat \ {0}
         /\ Len(Tail(args)) = Len(args) - 1
         /\ Tail(args) = <<>> <=> Len(args) = 1
         /\ Len(args) > 1 => Tail(args)[1] = args[2]
<1>1. /\ Tail(args) \in Seq(STRING)
      /\ Len(Tail(args)) = Len(args) - 1
      /\ \A i \in 1 .. Len(Tail(args)) : Tail(args)[i] = args[i + 1]
  BY HeadTailProperties
<1>2. Len(args) \in Nat /\ Len(args) # 0
  BY EmptySeq, LenProperties
<1>3. Tail(args) = <<>> <=> Len(Tail(args)) = 0
  BY <1>1, EmptySeq, LenProperties
<1>4. Len(args) > 1 => Tail(args)[1] = args[2]
  BY <1>1, <1>2
<1> QED
  BY <1>1, <1>2, <1>3, <1>4

(* The commands that take no setting.                                      *)
Plain == {"GPIO", "coap", "dataset", "netdataregister", "releaserouterid", "service", "thread"}

LEMMA PlainSet ==
  ASSUME NEW command \in Plain, NEW args, NEW api
  PROVE  Changes(Process(command, args, api))
<1>1. /\ Changes(GPIOSet(args, api))
      /\ Changes(ProcessCoap(args, api))
      /\ Changes(ProcessDataset(args, api))
      /\ Changes(ProcessNetworkDataRegister(args, api))
      /\ Changes(ProcessReleaseRouterId(args, api))
      /\ Changes(ProcessService(args, api))
      /\ Changes(ProcessThread(args, api))
  BY MadeChanges, CallChanges DEF GPIOSet, ProcessCoap, ProcessDataset,
     ProcessNetworkDataRegister, ProcessReleaseRouterId, ProcessService, ProcessThread, Verify
<1>2. Process(command, args, api) \in
        {GPIOSet(args, api), ProcessCoap(args, api), ProcessDataset(args, api),
         ProcessNetworkDataRegister(args, api), ProcessReleaseRouterId(args, api),
         ProcessService(args, api), ProcessThread(args, api)}
  BY DEF Process, Plain
<1> QED
  BY <1>1, <1>2

(* The commands with sub-commands of their own.                            *)
LEMMA IpAddr ==
  ASSUME NEW args, args # <<>>, NEW api
  PROVE  Honest("ipaddr", args, ProcessIpAddr(args, api))
<1>1. Changes(ProcessIpAddr(args, api))
  BY MadeChanges, CallChanges DEF ProcessIpAddr, ProcessIpAddrAdd, ProcessIpAddrDel, Verify
<1>2. ~AsksOnly("ipaddr", args)
  BY DEF AsksOnly, QueryCommands, SubSettings
<1> QED
  BY <1>1, <1>2, ChangesHonest

LEMMA IpMulticastAddr ==
  ASSUME NEW args \in Seq(STRING), args # <<>>, NEW api
  PROVE  Honest("ipmaddr", args, ProcessIpMulticastAddr(args, api))
<1> DEFINE reply == ProcessIpMulticastAddr(args, api)
<1>1. AsksOnly("ipmaddr", args) <=> Tail(args) = <<>> /\ args[1] = "promiscuous"
  BY TailEmpty DEF AsksOnly, QueryCommands, SubSettings
<1>2. CASE AsksOnly("ipmaddr", args)
  <2>1. reply = Shown
    BY <1>1, <1>2 DEF ProcessIpMulticastAddr, ProcessMulticastPromiscuous, Choice, Setting
  <2> QED
    BY <1>2, <2>1, ShownHonest
<1>3. CASE ~AsksOnly("ipmaddr", args)
  <2>1. Changes(reply)
    BY <1>1, <1>3, MadeChanges, CallChanges
       DEF ProcessIpMulticastAddr, ProcessMulticastPromiscuous, Choice, Setting, Verify,
           ProcessIpMulticastAddrAdd, ProcessIpMulticastAddrDel
  <2> QED
    BY <1>3, <2>1, ChangesHonest
<1> QED
  BY <1>2, <1>3

LEMMA KeySequence ==
  ASSUME NEW args \in Seq(STRING), NEW api
  PROVE  Honest("keysequence", args, ProcessKeySequence(args, api))
<1> DEFINE reply == ProcessKeySequence(args, api)
<1>1. AsksOnly("keysequence", args) <=>
        Len(args) = 1 /\ args[1] \in {"counter", "guardtime"}
  BY DEF AsksOnly, QueryCommands, Settings, SubSettings
<1>2. CASE args = <<>>
  BY <1>2, ShownHonest DEF ProcessKeySequence, Verify
<1>3. CASE args # <<>> /\ AsksOnly("keysequence", args)
  <2>1. reply = Shown
    BY <1>1, <1>3, TailEmpty DEF ProcessKeySequence, LongSetting, Setting, Verify
  <2> QED
    BY <1>3, <2>1, ShownHonest
<1>4. CASE args # <<>> /\ ~AsksOnly("keysequence", args)
  <2>1. Changes(reply)
    BY <1>1, <1>4, TailEmpty, MadeChanges
       DEF ProcessKeySequence, LongSetting, Setting, Verify
  <2> QED
    BY <1>4, <2>1, ChangesHonest
<1> QED
  BY <1>2, <1>3, <1>4

(* An address without a signal strength is added in one call, with one in  *)
(* two.                                                                    *)
LEMMA FilterAdd ==
  ASSUME NEW args, NEW api
  PROVE  /\ Len(args) = 2 => Changes(AddFilterAddress(args, api))
         /\ Len(args) # 2 =>
              /\ AddFilterAddress(args, api).result \in {"Done", "Error"}
              /\ "scan" \notin AddFilterAddress(args, api).made
              /\ AddFilterAddress(args, api).result = "Done" =>
                   AddFilterAddress(args, api).made # {}
<1>1. ASSUME Len(args) = 2 PROVE Changes(AddFilterAddress(args, api))
  <2>1. CASE api = "FAILED"
    BY <2>1, MadeChanges DEF AddFilterAddress
  <2>2. CASE api # "FAILED" /\ Accepted(api)
    BY <1>1, <2>2 DEF AddFilterAddress, AppendResult, Changes
  <2>3. CASE api # "FAILED" /\ ~Accepted(api)
    <3>1. AddFilterAddress(args, api) = AppendResult(FALSE, {})
      BY <1>1, <2>3 DEF AddFilterAddress, AppendResult
    <3> QED
      BY <3>1 DEF AppendResult, Changes
  <2> QED
    BY <2>1, <2>2, <2>3
<1>2. ASSUME Len(args) # 2
      PROVE  /\ AddFilterAddress(args, api).result \in {"Done", "Error"}
             /\ "scan" \notin AddFilterAddress(args, api).made
             /\ AddFilterAddress(args, api).result = "Done" =>
                  AddFilterAddress(args, api).made # {}
  BY <1>2, Replies DEF AddFilterAddress, AppendResult
<1> QED
  BY <1>1, <1>2

LEMMA FilterAddress ==
  ASSUME NEW args, args[1] = "addr", ~AsksOnly("macfilter", args), NEW api,
         NEW words, words # <<>>, Len(words) \in Nat, Len(args) = Len(words) + 1,
         args[2] = words[1]
  PROVE  Honest("macfilter", args, ProcessMacFilterAddress(words, api))
<1>1. CASE Len(words) > 1 /\ words[1] = "add" /\ Hex2Bin(words[2])
  <2>1. ProcessMacFilterAddress(words, api) = AddFilterAddress(words, api)
    BY <1>1 DEF ProcessMacFilterAddress
  <2>2. CASE Len(words) = 2
    BY <2>1, <2>2, FilterAdd, ChangesHonest
  <2>3. CASE Len(words) # 2
    <3>1. Len(args) > 3
      <4>1. Len(words) > 1
        BY <1>1
      <4>2. Len(words) > 2
        BY <2>3, <4>1
      <4> QED
        BY <4>2
    <3>2. TwoCalls("macfilter", args)
      BY <1>1, <3>1 DEF TwoCalls
    <3> QED
      BY <2>1, <2>3, <3>2, FilterAdd DEF Honest
  <2> QED
    BY <2>2, <2>3
<1>2. CASE ~(Len(words) > 1 /\ words[1] = "add" /\ Hex2Bin(words[2]))
  <2>1. Changes(ProcessMacFilterAddress(words, api))
    BY <1>2, MadeChanges, CallChanges DEF ProcessMacFilterAddress
  <2> QED
    BY <2>1, ChangesHonest
<1> QED
  BY <1>1, <1>2

LEMMA MacFilter ==
  ASSUME NEW args \in Seq(STRING), args # <<>>, NEW api
  PROVE  Honest("macfilter", args, ProcessMacFilter(args, api))
<1>1. AsksOnly("macfilter", args) <=> Len(args) = 1 /\ args[1] \in {"addr", "rss"}
  BY DEF AsksOnly, QueryCommands, SubSettings
<1>2. CASE AsksOnly("macfilter", args)
  <2>1. Tail(args) = <<>> /\ args[1] \in {"addr", "rss"}
    BY <1>1, <1>2, TailEmpty
  <2>2. ProcessMacFilterAddress(<<>>, api) = Shown /\ ProcessMacFilterRss(<<>>, api) = Shown
    BY DEF ProcessMacFilterAddress, ProcessMacFilterRss
  <2>3. ProcessMacFilter(args, api) = Shown
    BY <2>1, <2>2 DEF ProcessMacFilter
  <2> QED
    BY <1>2, <2>3, ShownHonest
<1>3. CASE ~AsksOnly("macfilter", args) /\ args[1] = "addr"
  <2>1. /\ Tail(args) # <<>>
        /\ Len(Tail(args)) \in Nat
        /\ Len(args) = Len(Tail(args)) + 1
        /\ args[2] = Tail(args)[1]
    <3>1. Len(args) \in Nat /\ Len(args) > 1
      BY <1>1, <1>3, TailEmpty
    <3> QED
      BY <3>1, TailEmpty
  <2>2. ProcessMacFilter(args, api) = ProcessMacFilterAddress(Tail(args), api)
    BY <1>3 DEF ProcessMacFilter
  <2> QED
    BY <1>3, <2>1, <2>2, FilterAddress
<1>4. CASE ~AsksOnly("macfilter", args) /\ args[1] # "addr"
  <2>1. args[1] = "rss" => Tail(args) # <<>>
    BY <1>1, <1>4, TailEmpty
  <2>2. Changes(ProcessMacFilterRss(Tail(args), api)) \/ Tail(args) = <<>>
    BY MadeChanges, CallChanges DEF ProcessMacFilterRss
  <2>3. Changes(ProcessMacFilter(args, api))
    BY <1>4, <2>1, <2>2, MadeChanges DEF ProcessMacFilter
  <2> QED
    BY <1>4, <2>3, ChangesHonest
<1> QED
  BY <1>2, <1>3, <1>4

LEMMA PrefixCallHonest ==
  ASSUME NEW command \in {"prefix", "route"}, NEW args \in Seq(STRING), Len(args) > 1,
         NEW rest, rest[1] = args[2], NEW api, NEW words, NEW change, change # "scan"
  PROVE  Honest(command, args, PrefixCall(rest, api, words, change))
<1>1. ~AsksOnly(command, args)
  BY EmptySeq DEF AsksOnly, QueryCommands, SubSettings
<1>2. CASE ~HasLength(args[2])
  BY <1>2, ShownHonest DEF PrefixCall, Ignores, SkipsWord
<1>3. CASE HasLength(args[2])
  <2>1. Changes(PrefixCall(rest, api, words, change))
    BY <1>3, MadeChanges, CallChanges DEF PrefixCall, Verify
  <2> QED
    BY <1>1, <2>1, ChangesHonest
<1> QED
  BY <1>2, <1>3

LEMMA OneWord ==
  ASSUME NEW args \in Seq(STRING), args # <<>>, NEW word, args[1] = word, args # <<word>>
  PROVE  Len(args) > 1
<1>1. Len(args) \in Nat \ {0} /\ Len(args) # 1
  BY TailEmpty, SeqEqual
<1> QED
  BY <1>1

LEMMA Prefix ==
  ASSUME NEW args \in Seq(STRING), args # <<>>, NEW api, args \notin {<<"add">>, <<"remove">>}
  PROVE  Honest("prefix", args, ProcessPrefix(args, api))
<1>1. CASE args[1] = "add"
  <2>1. Len(args) > 1 /\ Tail(args)[1] = args[2]
    BY <1>1, OneWord, TailEmpty
  <2>2. ProcessPrefix(args, api) =
          PrefixCall(Tail(args), api, {"high", "med", "low", "paros"}, "prefix")
    BY <1>1 DEF ProcessPrefix, ProcessPrefixAdd
  <2> QED
    BY <2>1, <2>2, PrefixCallHonest
<1>2. CASE args[1] = "remove"
  <2>1. Len(args) > 1 /\ <<Tail(args)[1]>>[1] = args[2]
    BY <1>2, OneWord, TailEmpty
  <2>2. ProcessPrefix(args, api) = PrefixCall(<<Tail(args)[1]>>, api, {}, "prefix")
    BY <1>2 DEF ProcessPrefix, ProcessPrefixRemove
  <2> QED
    BY <2>1, <2>2, PrefixCallHonest
<1>3. CASE args[1] \notin {"add", "remove"}
  BY <1>3, ShownHonest DEF ProcessPrefix
<1> QED
  BY <1>1, <1>2, <1>3

LEMMA Route ==
  ASSUME NEW args \in Seq(STRING), args # <<>>, NEW api
  PROVE  Honest("route", args, ProcessRoute(args, api))
<1>1. CASE Tail(args) = <<>> \/ args[1] \notin {"add", "remove"}
  BY <1>1, ShownHonest DEF ProcessRoute, ProcessRouteAdd, ProcessRouteRemove, Verify
<1>2. CASE Tail(args) # <<>> /\ args[1] = "add"
  <2>1. Len(args) > 1 /\ Tail(args)[1] = args[2]
    BY <1>2, TailEmpty
  <2>2. ProcessRoute(args, api) =
          PrefixCall(Tail(args), api, {"high", "med", "low", "s"}, "route")
    BY <1>2 DEF ProcessRoute, ProcessRouteAdd, Verify
  <2> QED
    BY <2>1, <2>2, PrefixCallHonest
<1>3. CASE Tail(args) # <<>> /\ args[1] = "remove"
  <2>1. Len(args) > 1 /\ <<Tail(args)[1]>>[1] = args[2]
    BY <1>3, TailEmpty
  <2>2. ProcessRoute(args, api) = PrefixCall(<<Tail(args)[1]>>, api, {}, "route")
    BY <1>3 DEF ProcessRoute, ProcessRouteRemove, Verify
  <2> QED
    BY <2>1, <2>2, PrefixCallHonest
<1> QED
  BY <1>1, <1>2, <1>3

LEMMA Queries ==
  ASSUME NEW command \in QueryCommands, NEW args, NEW api
  PROVE  Process(command, args, api) \in {Shown, Refused}
BY
   DEF QueryCommands, Process, ProcessBufferInfo, ProcessChild, ProcessEidCache,
       ProcessEui64, ProcessJoinerId, ProcessLeaderData, ProcessNeighbor,
       ProcessNetworkDataShow, ProcessParent, ProcessRloc16, ProcessRouter,
       ProcessSingleton, ProcessVersion, Verify, Query

LEMMA Promiscuous ==
  ASSUME NEW args, args # <<>>, NEW api
  PROVE  Honest("promiscuous", args, ProcessPromiscuous(args, api))
<1>1. ~AsksOnly("promiscuous", args) /\ TwoCalls("promiscuous", args)
  BY DEF AsksOnly, QueryCommands, SubSettings, TwoCalls
<1>2. ProcessPromiscuous(args, api).result \in {"Done", "Error"}
  BY Replies DEF ProcessPromiscuous, Choice, Setting, Verify, AppendResult
<1>3. /\ "scan" \notin ProcessPromiscuous(args, api).made
      /\ ProcessPromiscuous(args, api).result = "Done" =>
           ProcessPromiscuous(args, api).made # {}
  BY Replies DEF ProcessPromiscuous, Choice, Setting, Verify, AppendResult
<1> QED
  BY <1>1, <1>2, <1>3 DEF Honest

LEMMA ContextIdReuseDelay ==
  ASSUME NEW args, args # <<>>, NEW api
  PROVE  Honest("contextreusedelay", args, ProcessContextIdReuseDelay(args, api))
<1>1. CASE ParseLong(args[1])
  <2>1. Changes(ProcessContextIdReuseDelay(args, api))
    BY <1>1, MadeChanges DEF ProcessContextIdReuseDelay
  <2>2. ~AsksOnly("contextreusedelay", args)
    BY DEF AsksOnly, QueryCommands, SubSettings
  <2> QED
    BY <2>1, <2>2, ChangesHonest
<1>2. CASE ~ParseLong(args[1])
  <2>1. Ignores("contextreusedelay", args)
    BY <1>2 DEF Ignores, SkipsWord
  <2>2. ProcessContextIdReuseDelay(args, api) = Shown
    BY <1>2 DEF ProcessContextIdReuseDelay
  <2> QED
    BY <2>1, <2>2, ShownHonest
<1> QED
  BY <1>1, <1>2

LEMMA Commissioner ==
  ASSUME NEW args \in Seq(STRING), NEW api
  PROVE  Honest("commissioner", args, ProcessCommissioner(args, api))
<1>1. AsksOnly("commissioner", args) <=> args # <<>> /\ args[1] = "sessionid"
  BY DEF AsksOnly, QueryCommands, Settings, SubSettings
<1>2. CASE args = <<>>
  BY <1>2, ShownHonest DEF ProcessCommissioner
<1>3. CASE args # <<>> /\ args[1] = "sessionid"
  <2>1. ProcessCommissioner(args, api) = Shown
    BY <1>3 DEF ProcessCommissioner
  <2> QED
    BY <1>1, <1>3, <2>1, ShownHonest
<1>4. CASE args # <<>> /\ args[1] = "joiner"
  <2>1. ProcessCommissioner(args, api) = CommissionerJoiner(args, api)
    BY <1>4 DEF ProcessCommissioner
  <2>2. \/ Changes(CommissionerJoiner(args, api))
        \/ /\ CommissionerJoiner(args, api) = Shown
           /\ Len(args) > 2 /\ args[2] \notin {"add", "remove"}
    BY MadeChanges, CallChanges DEF CommissionerJoiner, Verify
  <2>3. CASE Changes(CommissionerJoiner(args, api))
    BY <1>1, <1>4, <2>1, <2>3, ChangesHonest
  <2>4. CASE /\ CommissionerJoiner(args, api) = Shown
             /\ Len(args) > 2 /\ args[2] \notin {"add", "remove"}
    <3>1. Ignores("commissioner", args)
      BY <1>4, <2>4 DEF Ignores, SkipsWord
    <3> QED
      BY <2>1, <2>4, <3>1, ShownHonest
  <2> QED
    BY <2>2, <2>3, <2>4
<1>5. CASE args # <<>> /\ args[1] \notin {"sessionid", "joiner"}
  <2>1. /\ Changes(CommissionerAnnounce(args, api))
        /\ Changes(CommissionerEnergy(args, api))
        /\ Changes(CommissionerPanId(args, api))
    BY MadeChanges, CallChanges
       DEF CommissionerAnnounce, CommissionerEnergy, CommissionerPanId, Verify
  <2>2. Changes(CommissionerMgmtGet(args, api))
    BY MadeChanges, CallChanges DEF CommissionerMgmtGet, Verify
  <2>3. Changes(CommissionerMgmtSet(args, api))
    BY MadeChanges, CallChanges DEF CommissionerMgmtSet, Verify
  <2>4. Changes(ProcessCommissioner(args, api))
    BY <1>5, <2>1, <2>2, <2>3, MadeChanges, CallChanges DEF ProcessCommissioner
  <2> QED
    BY <1>1, <1>5, <2>4, ChangesHonest
<1> QED
  BY <1>2, <1>3, <1>4, <1>5

(* A call whose error is dropped: the line says so by what it is.          *)
LEMMA UncheckedHonest ==
  ASSUME NEW command, NEW args, NEW api, NEW change, change # "scan",
         ~AsksOnly(command, args), DropsError(command, args)
  PROVE  Honest(command, args, Unchecked(api, change))
<1>1. Ignores(command, args)
  BY DEF Ignores
<1> QED
  BY <1>1 DEF Honest, Unchecked, AppendResult

LEMMA Joiner ==
  ASSUME NEW args, NEW api
  PROVE  Honest("joiner", args, ProcessJoiner(args, api))
<1>1. ~AsksOnly("joiner", args)
  BY DEF AsksOnly, QueryCommands, Settings, SubSettings
<1>2. ASSUME args # <<>>, args[1] \in {"start", "stop"}
      PROVE  /\ Honest("joiner", args, Unchecked(api, "join"))
             /\ Honest("joiner", args, Unchecked(api, "join stop"))
  <2>1. DropsError("joiner", args)
    BY <1>2 DEF DropsError
  <2> QED
    BY <1>1, <2>1, UncheckedHonest
<1>3. CASE Len(args) > 1 /\ args[1] = "start"
  <2>1. args # <<>> /\ ProcessJoiner(args, api) = Unchecked(api, "join")
    BY <1>3 DEF ProcessJoiner
  <2> QED
    BY <1>2, <1>3, <2>1
<1>4. CASE ~(Len(args) > 1 /\ args[1] = "start") /\ args # <<>> /\ args[1] = "stop"
  <2>1. ProcessJoiner(args, api) = Unchecked(api, "join stop")
    BY <1>4 DEF ProcessJoiner
  <2> QED
    BY <1>2, <1>4, <2>1
<1>5. CASE /\ ~(Len(args) > 1 /\ args[1] = "start")
           /\ ~(args # <<>> /\ args[1] = "stop")
  <2>1. ProcessJoiner(args, api) = Refused
    BY <1>5 DEF ProcessJoiner
  <2> QED
    BY <2>1, ShownHonest
<1> QED
  BY <1>3, <1>4, <1>5

(* The commands whose answer is still to come, or that print none.         *)
LEMMA Started ==
  ASSUME NEW command \in {"counter", "diag", "discover", "help",
                          "networkdiagnostic", "scan"},
         NEW args, NEW api
  PROVE  Honest(command, args, Process(command, args, api))
<1>1. ~AsksOnly(command, args)
  BY DEF AsksOnly, QueryCommands, Settings, SubSettings
<1>2. /\ Honest(command, args, ProcessHelp(args, api))
      /\ Honest(command, args, ProcessCounters(args, api))
      /\ Honest(command, args, ProcessDiag(args, api))
  BY ShownHonest DEF ProcessHelp, ProcessCounters, ProcessDiag
<1>3. /\ Honest(command, args, ProcessDiscover(args, api))
      /\ Honest(command, args, ProcessScan(args, api))
  BY <1>1, ShownHonest DEF ProcessDiscover, ProcessScan, Verify
<1>4. ASSUME command = "networkdiagnostic"
      PROVE  Honest(command, args, ProcessNetworkDiagnostic(args, api))
  <2>1. ASSUME Len(args) > 2, args[1] = "reset"
        PROVE  Honest(command, args, Unchecked(api, "diag reset"))
    <3>1. args # <<>>
      BY <2>1
    <3>2. DropsError(command, args)
      BY <1>4, <2>1, <3>1 DEF DropsError
    <3> QED
      BY <1>1, <3>2, UncheckedHonest
  <2> QED
    BY <1>1, <2>1, ShownHonest DEF ProcessNetworkDiagnostic, Verify
<1>5. \/ Process(command, args, api) \in
        {ProcessHelp(args, api), ProcessCounters(args, api), ProcessDiag(args, api),
         ProcessDiscover(args, api), ProcessScan(args, api)}
      \/ command = "networkdiagnostic" /\ Process(command, args, api) =
                                            ProcessNetworkDiagnostic(args, api)
  BY DEF Process
<1> QED
  BY <1>2, <1>3, <1>4, <1>5

(* All of sCommands.                                                       *)
LEMMA ProcessHonest ==
  ASSUME NEW command, NEW args \in Seq(STRING), NEW api,
         command = "prefix" => args \notin {<<"add">>, <<"remove">>}
  PROVE  Honest(command, args, Process(command, args, api))
<1> DEFINE reply == Process(command, args, api)
<1>1. CASE command \in QueryCommands
  <2>1. AsksOnly(command, args)
    BY <1>1 DEF AsksOnly
  <2> QED
    BY <1>1, <2>1, Queries, ShownHonest
<1>2. CASE command \in Settings /\ args = <<>>
  <2>1. AsksOnly(command, args)
    BY <1>2 DEF AsksOnly
  <2>2. reply \in {Shown, Refused}
    BY <1>2, SettingShown
  <2> QED
    BY <2>1, <2>2, ShownHonest
<1>3. CASE command \in OneCall /\ args # <<>>
  <2>1. ~AsksOnly(command, args)
    BY <1>3 DEF AsksOnly, OneCall, Settings, QueryCommands, SubSettings
  <2> QED
    BY <1>3, <2>1, SettingSet, ChangesHonest
<1>4. CASE command \in Plain
  <2>1. ~AsksOnly(command, args)
    BY <1>4 DEF AsksOnly, Plain, Settings, QueryCommands, SubSettings
  <2> QED
    BY <1>4, <2>1, PlainSet, ChangesHonest
<1>5. CASE command \in {"contextreusedelay", "ipaddr", "ipmaddr", "macfilter"} /\ args # <<>>
  <2>1. /\ command = "contextreusedelay" => reply = ProcessContextIdReuseDelay(args, api)
        /\ command = "ipaddr" => reply = ProcessIpAddr(args, api)
        /\ command = "ipmaddr" => reply = ProcessIpMulticastAddr(args, api)
        /\ command = "macfilter" => reply = ProcessMacFilter(args, api)
    BY DEF Process
  <2> QED
    BY <1>5, <2>1, ContextIdReuseDelay, IpAddr, IpMulticastAddr, MacFilter
<1>6. CASE command \in {"prefix", "promiscuous", "route"} /\ args # <<>>
  <2>1. /\ command = "prefix" => reply = ProcessPrefix(args, api)
        /\ command = "promiscuous" => reply = ProcessPromiscuous(args, api)
        /\ command = "route" => reply = ProcessRoute(args, api)
    BY DEF Process
  <2> QED
    BY <1>6, <2>1, Prefix, Promiscuous, Route
<1>7. CASE command \in {"commissioner", "joiner", "keysequence"}
  <2>1. /\ command = "commissioner" => reply = ProcessCommissioner(args, api)
        /\ command = "joiner" => reply = ProcessJoiner(args, api)
        /\ command = "keysequence" => reply = ProcessKeySequence(args, api)
    BY DEF Process
  <2> QED
    BY <1>7, <2>1, Commissioner, Joiner, KeySequence
<1> DEFINE Starting == {"counter", "diag", "discover", "help", "networkdiagnostic", "scan"}
<1>8. CASE command \in Starting
  BY <1>8, Started
<1>9. CASE command \notin QueryCommands \cup Settings \cup Plain \cup Starting
                         \cup {"commissioner", "joiner", "keysequence"}
  <2>1. reply = Refused
    BY <1>9 DEF Process, QueryCommands, Settings, Plain
  <2> QED
    BY <2>1, ShownHonest
<1> QED
  BY <1>1, <1>2, <1>3, <1>4, <1>5, <1>6, <1>7, <1>8, <1>9 DEF OneCall

(* What Asked makes of the same cases.                                     *)
LEMMA AskedCases ==
  ASSUME NEW line
  PROVE  /\ Asked(line) \in {"query", "change", "two changes", "ignored"}
         /\ Asked(line) = "query" <=> AsksOnly(Head(line), Tail(line))
         /\ ~AsksOnly(Head(line), Tail(line)) /\ TwoCalls(Head(line), Tail(line)) =>
              Asked(line) = "two changes"
         /\ ~AsksOnly(Head(line), Tail(line)) /\ Ignores(Head(line), Tail(line)) =>
              Asked(line) = "ignored"
<1>1. ~(TwoCalls(Head(line), Tail(line)) /\ Ignores(Head(line), Tail(line)))
  BY DEF TwoCalls, Ignores, SkipsWord, DropsError
<1> QED
  BY <1>1 DEF Asked

AnswerTrue(outcome) ==
    /\ outcome \in [asked : {"query", "change", "two changes", "ignored"},
                    result : {"Done", "Error", "None"}, changed : BOOLEAN]
    /\ outcome.result = "Error" /\ outcome.changed => outcome.asked = "two changes"
    /\ outcome.result = "Done" /\ outcome.asked \in {"change", "two changes"} => outcome.changed
    /\ outcome.asked = "query" => ~outcome.changed

LEMMA OutcomeTrue ==
  ASSUME NEW line, NEW reply, Honest(Head(line), Tail(line), reply)
  PROVE  AnswerTrue(Outcome(line, reply))
BY AskedCases DEF Honest, Outcome, AnswerTrue

LEMMA TwoWords ==
  ASSUME NEW line \in Seq(STRING), line # <<>>, NEW word,
         Len(Tail(line)) = 1, Tail(line)[1] = word
  PROVE  line = <<Head(line), word>>
<1>1. /\ Len(line) \in Nat
      /\ Len(Tail(line)) = Len(line) - 1
      /\ \A i \in 1 .. Len(Tail(line)) : Tail(line)[i] = line[i + 1]
  BY HeadTailProperties, LenProperties
<1>2. Len(line) = 2
  BY <1>1
<1>3. line[2] = word
  BY <1>1
<1> QED
  BY <1>2, <1>3, SeqEqual

LEMMA OneWordSeq ==
  ASSUME NEW words, NEW word, words = <<word>>
  PROVE  Len(words) = 1 /\ words[1] = word
OBVIOUS

LEMMA LineWords ==
  ASSUME NEW line \in Lines
  PROVE  /\ line \in Seq(STRING) /\ line # <<>>
         /\ Tail(line) \in Seq(STRING)
         /\ Head(line) = "prefix" => Tail(line) \notin {<<"add">>, <<"remove">>}
<1>1. line \in Seq(STRING) /\ line \notin {<<>>, <<"prefix", "add">>, <<"prefix", "remove">>}
  BY CliAssumption
<1>2. Tail(line) \in Seq(STRING)
  BY <1>1, HeadTailProperties
<1>3. ASSUME NEW word, Tail(line) = <<word>> PROVE line = <<Head(line), word>>
  <2>1. Len(Tail(line)) = 1 /\ Tail(line)[1] = word
    BY <1>3, OneWordSeq
  <2> QED
    BY <1>1, <2>1, TwoWords
<1>4. ASSUME Head(line) = "prefix" PROVE Tail(line) # <<"add">> /\ Tail(line) # <<"remove">>
  <2>1. line # <<Head(line), "add">> /\ line # <<Head(line), "remove">>
    BY <1>1, <1>4, Zenon
  <2> QED
    BY <1>3, <2>1, Zenon
<1> QED
  BY <1>1, <1>2, <1>4
----------------------------------------------------------------------------
(* What a step may leave behind as the last answer.                        *)
LEMMA OwnAnswer ==
  ASSUME NEW line, Head(line) \in OwnActions
  PROVE  /\ AnswerTrue(Outcome(line, Refused))
         /\ \A change : change # "scan" => AnswerTrue(Outcome(line, Made(change)))
         /\ \A ok, change : change # "scan" => AnswerTrue(Outcome(line, Verify(ok, Made(change))))
         /\ \A made : AnswerTrue(Outcome(line, Silent(made)))
<1>1. ~AsksOnly(Head(line), Tail(line))
  BY DEF OwnActions, AsksOnly, QueryCommands, Settings, SubSettings
<1>2. /\ AnswerTrue(Outcome(line, Refused))
      /\ \A made : AnswerTrue(Outcome(line, Silent(made)))
  BY <1>1, ShownHonest, OutcomeTrue
<1>3. \A change : change # "scan" => AnswerTrue(Outcome(line, Made(change)))
  BY <1>1, MadeChanges, ChangesHonest, OutcomeTrue
<1> QED
  BY <1>2, <1>3 DEF Verify

LEMMA EffectTrue ==
  ASSUME NEW effect \in Effects
  PROVE  /\ AnswerTrue(effect.outcome)
         /\ \E line \in Lines : effect.args = Stored(line)
         /\ effect.calls \subseteq Reports \cup {"diag"}
         /\ "scan" \in effect.calls => effect.outcome.result = "None"
<1>1. PICK line \in Lines, api \in ApiOutcomes : effect = Effect(line, api)
  BY DEF Effects
<1> DEFINE reply == Process(Head(line), Tail(line), api)
<1>2. Honest(Head(line), Tail(line), reply)
  BY LineWords, ProcessHonest
<1>3. /\ effect.args = Stored(line)
      /\ effect.outcome = Outcome(line, reply)
      /\ effect.calls = reply.made \cap (Reports \cup {"diag"})
  BY <1>1 DEF Effect
<1>4. Outcome(line, reply).result = reply.result
  BY DEF Outcome
<1>5. "scan" \in reply.made => reply.result = "None"
  BY <1>2 DEF Honest
<1> HIDE DEF reply
<1> QED
  BY <1>2, <1>3, <1>4, <1>5, OutcomeTrue

LEMMA PingAnswers ==
  ASSUME NEW line, Head(line) \in OwnActions, NEW default, NEW sends,
         Ping(line, default, sends)
  PROVE  UNCHANGED <<results, last>> \/ \E outcome : AnswerTrue(outcome) /\ Answer(outcome)
BY OwnAnswer DEF Ping

(* Every step answers truly or leaves the last answer as it was.           *)
LEMMA AnswerStep ==
  ASSUME [Next]_vars
  PROVE  last' = last \/ last' = NoAnswer \/ AnswerTrue(last')
<1>1. CASE Command
  BY <1>1, EffectTrue DEF Command, Answer
<1>2. ASSUME NEW line \in Lines, NEW api \in ApiOutcomes, ProcessUdp(line, api)
      PROVE  AnswerTrue(last')
  BY <1>2, OwnAnswer DEF ProcessUdp, Answer, OwnActions, Call
<1>3. ASSUME NEW line \in Lines, NEW api \in ApiOutcomes, ProcessDns(line, api)
      PROVE  AnswerTrue(last')
  <2>1. Head(line) \in OwnActions
    BY <1>3 DEF ProcessDns, OwnActions
  <2> QED
    BY <1>3, <2>1, OwnAnswer DEF ProcessDns, Answer
<1>4. ASSUME NEW line \in Lines, NEW sends \in BOOLEAN,
             ProcessPing(line, sends) \/ pingTest(line, sends)
      PROVE  last' = last \/ AnswerTrue(last')
  <2>1. Head(line) \in OwnActions
    BY <1>4 DEF ProcessPing, pingTest, OwnActions
  <2>2. \E default : Ping(line, default, sends)
    BY <1>4 DEF ProcessPing, pingTest
  <2> QED
    BY <2>1, <2>2, PingAnswers DEF Answer
<1>5. ASSUME NEW line \in Lines, routerPeriodicTest(line)
      PROVE  AnswerTrue(last')
  <2>1. Head(line) \in OwnActions
    BY <1>5 DEF routerPeriodicTest, OwnActions
  <2> QED
    BY <1>5, <2>1, OwnAnswer DEF routerPeriodicTest, Answer
<1>6. CASE TooManyArgs
  BY <1>6 DEF TooManyArgs
<1>7. CASE ProcessReset \/ ProcessFactoryReset \/ PowerCycle
  BY <1>7 DEF ProcessReset, ProcessFactoryReset, PowerCycle, Restart
<1>8. CASE Event
  BY <1>8 DEF Event, Type, UdpTimer, HandleRouterTimer, PingTimer, HandleIcmpReceive,
     HandleDiagnosticGetResponse, HandleDnsResponse, HandleActiveScanResult,
     HandleEnergyReport, HandlePanIdConflict, HandleLinkPcapReceive, HandleJoinerCallback,
     Prints
<1>9. CASE UNCHANGED vars
  BY <1>9 DEF vars
<1> QED
  BY <1>1, <1>2, <1>3, <1>4, <1>5, <1>6, <1>7, <1>8, <1>9 DEF Next, ProcessLine

(* A line that asks changes nothing; one that was refused changed nothing, *)
(* the first of two calls apart; and one that is Done changed something,   *)
(* but for the commands that skip a word (SkipsWord) and the three that    *)
(* drop the error of their call (DropsError): for every command of         *)
(* sCommands, whatever its words and whatever the stack says to its calls. *)
THEOREM AnswersAreTrue == Spec => []AnswersTrue
<1>1. AnswerTrue(NoAnswer)
  BY DEF AnswerTrue, NoAnswer
<1>2. Init => AnswerTrue(last)
  BY <1>1 DEF Init, Interpreter
<1>3. AnswerTrue(last) /\ [Next]_vars => AnswerTrue(last)'
  BY <1>1, AnswerStep
<1>4. AnswerTrue(last) => AnswersTrue
  BY DEF AnswerTrue, AnswersTrue, ErrorChangesNothing, DoneMeansDone, QueryChangesNothing
<1> QED
  BY <1>2, <1>3, <1>4, PTL DEF Spec

----------------------------------------------------------------------------
(* Numbers: % on a 16-bit counter, and the numbers a word can stand for.   *)
LEMMA Modulus ==
  ASSUME NEW n \in Nat
  PROVE  /\ n % CountModulus \in 0 .. CountModulus - 1
         /\ n < CountModulus => n % CountModulus = n
BY CliAssumption

LEMMA OneLess ==
  ASSUME NEW count \in 0 .. CountModulus - 1
  PROVE  /\ (count + CountModulus - 1) % CountModulus \in 0 .. CountModulus - 1
         /\ count # 0 => (count + CountModulus - 1) % CountModulus = count - 1
         /\ count = 0 => (count + CountModulus - 1) % CountModulus = CountModulus - 1
         /\ CountModulus % CountModulus = 0
BY CliAssumption

LEMMA LongNat == \A word : ParseLong(word) => Long[word] \in Nat
BY DEF ParseLong, Long

LEMMA HandlePing ==
  ASSUME NEW count \in 0 .. CountModulus - 1, NEW done \in Nat, NEW sends \in BOOLEAN,
         HandlePingTimer(count, done, sends)
  PROVE  /\ mCount' \in 0 .. CountModulus - 1 /\ mPingTimer' \in BOOLEAN /\ pinged' \in Nat
         /\ network' \subseteq network \cup {"echo"}
         /\ mPingTimer' /\ (count = 0 => done = 0) =>
              /\ mCount' > 0
              /\ (pinged' + mCount') % CountModulus = (done + count) % CountModulus
<1> DEFINE rest == IF sends THEN (count + CountModulus - 1) % CountModulus ELSE count
<1>1. /\ mCount' = rest /\ mPingTimer' = (rest # 0)
      /\ pinged' = IF sends THEN done + 1 ELSE done
      /\ network' = IF sends THEN network \cup {"echo"} ELSE network
  BY DEF HandlePingTimer
<1>2. rest \in 0 .. CountModulus - 1
  BY OneLess
<1>3. /\ mCount' \in 0 .. CountModulus - 1 /\ mPingTimer' \in BOOLEAN /\ pinged' \in Nat
      /\ network' \subseteq network \cup {"echo"}
      /\ mPingTimer' => mCount' > 0
  <2>1. rest # 0 => rest > 0
    BY <1>2, CliAssumption
  <2>2. pinged' \in Nat
    BY <1>1
  <2> HIDE DEF rest
  <2> QED
    BY <1>1, <1>2, <2>1, <2>2
<1>4. ASSUME count = 0 => done = 0
      PROVE  (pinged' + mCount') % CountModulus = (done + count) % CountModulus
  <2>1. CASE ~sends
    BY <1>1, <2>1
  <2>2. CASE sends /\ count # 0
    <3>1. rest = count - 1
      BY <2>2, OneLess
    <3>2. pinged' + mCount' = done + count
      BY <1>1, <2>2, <3>1, CliAssumption
    <3> QED
      BY <3>2
  <2>3. CASE sends /\ count = 0
    <3>1. rest = CountModulus - 1
      BY <2>3, OneLess
    <3>2. pinged' + mCount' = CountModulus /\ done + count = 0
      BY <1>1, <1>4, <2>3, <3>1, CliAssumption
    <3>3. CountModulus % CountModulus = 0 /\ 0 % CountModulus = 0
      BY CliAssumption
    <3> QED
      BY <3>2, <3>3
  <2> QED
    BY <2>1, <2>2, <2>3
<1> QED
  BY <1>3, <1>4

(* The timer of the pings, whatever a line asks of it.                     *)
PingTyped ==
    /\ mCount \in 0 .. CountModulus - 1 /\ asked \in Nat /\ pinged \in Nat
    /\ mPingTimer \in BOOLEAN /\ network \subseteq {"echo", "diag"}

PingWords(line, default) ==
    LET args   == Tail(line)
        parsed == {i \in 2 .. Len(args) : AllLong(args, 2, i)}
    IN IF 3 \in parsed THEN Long[args[3]] % CountModulus ELSE default

LEMMA PingWordsCount ==
  ASSUME NEW line, NEW default \in 0 .. CountModulus - 1
  PROVE  PingWords(line, default) \in 0 .. CountModulus - 1
<1> DEFINE args == Tail(line)
<1>1. ASSUME AllLong(args, 2, 3) PROVE Long[args[3]] \in Nat
  <2>1. ParseLong(args[3])
    <3>1. \A i \in 2 .. 3 : ParseLong(args[i])
      BY <1>1 DEF AllLong
    <3>2. 3 \in 2 .. 3
      OBVIOUS
    <3> HIDE DEF args
    <3> QED
      BY <3>1, <3>2, Zenon
  <2> QED
    BY <2>1, LongNat
<1>2. AllLong(args, 2, 3) => Long[args[3]] % CountModulus \in 0 .. CountModulus - 1
  BY <1>1, Modulus
<1> QED
  BY <1>2 DEF PingWords

LEMMA PingStep ==
  ASSUME PingTyped, PingCount, NEW line, NEW default \in 0 .. CountModulus - 1,
         NEW sends \in BOOLEAN, Ping(line, default, sends)
  PROVE  PingTyped' /\ PingCount'
<1> DEFINE count == PingWords(line, default)
<1>1. count \in 0 .. CountModulus - 1
  BY PingWordsCount
<1> HIDE DEF count
<1>2. \/ HandlePingTimer(count, 0, sends) /\ asked' = count
      \/ mPingTimer = FALSE /\ mCount' = count /\ UNCHANGED <<mPingTimer, asked, pinged, network>>
      \/ UNCHANGED <<pingVars, network>>
      \/ mPingTimer' = FALSE /\ UNCHANGED <<mCount, asked, pinged, network>>
  BY DEF Ping, PingWords, count, PingTyped
<1>3. CASE HandlePingTimer(count, 0, sends) /\ asked' = count
  <2>1. /\ mCount' \in 0 .. CountModulus - 1 /\ mPingTimer' \in BOOLEAN /\ pinged' \in Nat
        /\ network' \subseteq network \cup {"echo"}
        /\ mPingTimer' => /\ mCount' > 0
                          /\ (pinged' + mCount') % CountModulus = (0 + count) % CountModulus
    BY <1>1, <1>3, HandlePing
  <2>2. (0 + count) % CountModulus = count
    BY <1>1, CliAssumption
  <2>3. asked' \in Nat
    BY <1>1, <1>3, CliAssumption
  <2> QED
    BY <1>3, <2>1, <2>2, <2>3 DEF PingTyped, PingCount
<1>4. CASE mPingTimer = FALSE /\ mCount' = count /\ UNCHANGED <<mPingTimer, asked, pinged, network>>
  BY <1>1, <1>4 DEF PingTyped, PingCount
<1>5. CASE UNCHANGED <<pingVars, network>>
  BY <1>5 DEF PingTyped, PingCount, pingVars
<1>6. CASE mPingTimer' = FALSE /\ UNCHANGED <<mCount, asked, pinged, network>>
  BY <1>6 DEF PingTyped, PingCount
<1> QED
  BY <1>2, <1>3, <1>4, <1>5, <1>6

LEMMA PingTimerStep ==
  ASSUME PingTyped, PingCount, NEW sends \in BOOLEAN, PingTimer(sends)
  PROVE  PingTyped' /\ PingCount'
<1>1. /\ mCount \in 0 .. CountModulus - 1 /\ pinged \in Nat /\ asked \in Nat
      /\ mCount > 0 /\ mCount # 0
      /\ (pinged + mCount) % CountModulus = asked
      /\ HandlePingTimer(mCount, pinged, sends) /\ asked' = asked
      /\ network \subseteq {"echo", "diag"}
  BY CliAssumption DEF PingTyped, PingCount, PingTimer
<1>2. /\ mCount' \in 0 .. CountModulus - 1 /\ mPingTimer' \in BOOLEAN /\ pinged' \in Nat
      /\ network' \subseteq network \cup {"echo"}
      /\ mPingTimer' => /\ mCount' > 0
                        /\ (pinged' + mCount') % CountModulus = (pinged + mCount) % CountModulus
  BY <1>1, HandlePing
<1> QED
  BY <1>1, <1>2 DEF PingTyped, PingCount

(* The pings, with every action that touches their state or the answers    *)
(* other nodes owe.                                                        *)
LEMMA PingInvariant == PingTyped /\ PingCount /\ [Next]_vars => PingTyped' /\ PingCount'
<1> SUFFICES ASSUME PingTyped, PingCount, [Next]_vars PROVE PingTyped' /\ PingCount'
  OBVIOUS
<1>1. ASSUME UNCHANGED pingVars, network' \subseteq network \cup {"echo", "diag"}
      PROVE  PingTyped' /\ PingCount'
  BY <1>1 DEF PingTyped, PingCount, pingVars
<1>2. CASE Command
  BY <1>1, <1>2 DEF Command
<1>3. ASSUME NEW line \in Lines, NEW api \in ApiOutcomes,
             ProcessUdp(line, api) \/ ProcessDns(line, api)
      PROVE  PingTyped' /\ PingCount'
  BY <1>1, <1>3 DEF ProcessUdp, ProcessDns
<1>4. ASSUME NEW line \in Lines, NEW sends \in BOOLEAN,
             ProcessPing(line, sends) \/ pingTest(line, sends)
      PROVE  PingTyped' /\ PingCount'
  <2>1. 1 % CountModulus \in 0 .. CountModulus - 1 /\ 5 % CountModulus \in 0 .. CountModulus - 1
    BY Modulus
  <2> QED
    BY <1>4, <2>1, PingStep DEF ProcessPing, pingTest
<1>5. ASSUME NEW line \in Lines, routerPeriodicTest(line)
      PROVE  PingTyped' /\ PingCount'
  BY <1>1, <1>5 DEF routerPeriodicTest
<1>6. CASE TooManyArgs
  BY <1>1, <1>6 DEF TooManyArgs
<1>7. CASE ProcessReset \/ ProcessFactoryReset \/ PowerCycle
  <2>1. 1 % CountModulus \in 0 .. CountModulus - 1
    BY Modulus
  <2>2. /\ mCount' = 1 % CountModulus /\ mPingTimer' = FALSE /\ asked' = 0 /\ pinged' = 0
        /\ UNCHANGED network
    BY <1>7 DEF ProcessReset, ProcessFactoryReset, PowerCycle, Restart
  <2> QED
    BY <2>1, <2>2 DEF PingTyped, PingCount
<1>8. ASSUME NEW sends \in BOOLEAN, PingTimer(sends)
      PROVE  PingTyped' /\ PingCount'
  BY <1>8, PingTimerStep
<1>9. CASE \/ Type \/ UdpTimer \/ HandleRouterTimer
           \/ HandleIcmpReceive \/ HandleDiagnosticGetResponse
           \/ \E ok \in BOOLEAN : HandleDnsResponse(ok)
           \/ \E end \in BOOLEAN : HandleActiveScanResult(end)
           \/ HandleEnergyReport \/ HandlePanIdConflict
           \/ HandleLinkPcapReceive \/ HandleJoinerCallback
  <2>1. UNCHANGED pingVars /\ network' \subseteq network
    BY <1>9 DEF Type, UdpTimer, HandleRouterTimer, HandleIcmpReceive,
       HandleDiagnosticGetResponse, HandleDnsResponse, HandleActiveScanResult,
       HandleEnergyReport, HandlePanIdConflict, HandleLinkPcapReceive, HandleJoinerCallback,
       Prints
  <2> QED
    BY <1>1, <2>1
<1>10. CASE UNCHANGED vars
  BY <1>1, <1>10 DEF vars
<1> QED
  BY <1>2, <1>3, <1>4, <1>5, <1>6, <1>7, <1>8, <1>9, <1>10 DEF Next, ProcessLine, Event

----------------------------------------------------------------------------
(* The other variables, and the results that are still to come: one of a   *)
(* scan, one of a query, one of the router output when it is stopped.      *)
LinesTyped ==
    /\ mServer \in BOOLEAN /\ torn \in BOOLEAN /\ fault \in BOOLEAN
    /\ currentArgv = <<>> \/ \E line \in Lines : currentArgv = Tail(line)
    /\ UDPLoopCounter \in Nat /\ sent \in Nat /\ udpTimer \in BOOLEAN
    /\ stopRouterOutput \in BOOLEAN /\ routerOPTimer \in BOOLEAN
    /\ mResolvingInProgress \in BOOLEAN
    /\ callbacks \subseteq Reports \cup {"dns"}
    /\ lines \in 0 .. MaxLines /\ results \in Nat

Owing(due) == IF due THEN 1 ELSE 0
Owed(calls, output) ==
    Owing("scan" \in calls) + Owing("dns" \in calls) + Owing(output)
ResultsOwed == results + Owed(callbacks, routerOPTimer) <= lines

LEMMA OwedNat == \A calls, output : Owed(calls, output) \in Nat
BY DEF Owed, Owing

LEMMA LineTyped ==
  ASSUME LinesTyped, NEW line \in Lines, ReadLine(Stored(line))
  PROVE  /\ mServer' \in BOOLEAN /\ torn' \in BOOLEAN /\ fault' \in BOOLEAN
         /\ currentArgv' = <<>> \/ \E l \in Lines : currentArgv' = Tail(l)
         /\ lines' \in 0 .. MaxLines
         /\ lines' = lines + 1
<1>1. lines \in Nat /\ lines <= MaxLines /\ lines < MaxLines /\ lines' = lines + 1
  BY CliAssumption DEF LinesTyped, ReadLine
<1>2. lines' \in 0 .. MaxLines
  BY <1>1, CliAssumption
<1>3. currentArgv' = <<>> \/ currentArgv' = Tail(line)
  BY DEF ReadLine, Stored
<1> QED
  BY <1>1, <1>2, <1>3 DEF ReadLine, LinesTyped

LEMMA Answered ==
  ASSUME results \in Nat, NEW outcome, Answer(outcome)
  PROVE  /\ results' \in Nat
         /\ results' = results \/ results' = results + 1
         /\ outcome.result = "None" => results' = results
BY DEF Answer

LEMMA LinesStep == LinesTyped /\ [Next]_vars => LinesTyped'
<1> SUFFICES ASSUME LinesTyped, [Next]_vars PROVE LinesTyped'
  OBVIOUS
<1>1. CASE Command
  <2>1. PICK effect \in Effects :
          /\ ReadLine(effect.args) /\ Answer(effect.outcome)
          /\ callbacks' = callbacks \cup (effect.calls \cap Reports)
          /\ UNCHANGED <<udpVars, routerVars, mResolvingInProgress>>
    BY <1>1 DEF Command
  <2>2. PICK line \in Lines : effect.args = Stored(line)
    BY EffectTrue
  <2>3. results' \in Nat
    BY <2>1, Answered DEF LinesTyped
  <2> QED
    BY <2>1, <2>2, <2>3, LineTyped DEF LinesTyped, udpVars, routerVars
<1>2. ASSUME NEW line \in Lines, NEW api \in ApiOutcomes, ProcessUdp(line, api)
      PROVE  LinesTyped'
  <2>1. /\ ReadLine(Stored(line)) /\ Answer(Outcome(line, Call(api, "udp")))
        /\ UDPLoopCounter' = 0 + 1
        /\ sent' \in Nat
        /\ udpTimer' \in BOOLEAN
        /\ UNCHANGED <<routerVars, mResolvingInProgress, callbacks>>
    BY <1>2 DEF ProcessUdp, HandleUDPTimer
  <2>2. results' \in Nat
    BY <2>1, Answered DEF LinesTyped
  <2> QED
    BY <2>1, <2>2, LineTyped DEF LinesTyped, routerVars
<1>3. ASSUME NEW line \in Lines, NEW api \in ApiOutcomes, ProcessDns(line, api)
      PROVE  LinesTyped'
  <2>1. /\ ReadLine(Stored(line))
        /\ \E outcome : Answer(outcome)
        /\ mResolvingInProgress' \in {TRUE, mResolvingInProgress}
        /\ callbacks' \subseteq callbacks \cup {"dns"}
        /\ UNCHANGED <<udpVars, routerVars>>
    BY <1>3 DEF ProcessDns
  <2>2. results' \in Nat
    BY <2>1, Answered DEF LinesTyped
  <2> QED
    BY <2>1, <2>2, LineTyped DEF LinesTyped, udpVars, routerVars
<1>4. ASSUME NEW line \in Lines, NEW sends \in BOOLEAN,
             ProcessPing(line, sends) \/ pingTest(line, sends)
      PROVE  LinesTyped'
  <2>1. /\ ReadLine(Stored(line))
        /\ \E default : Ping(line, default, sends)
        /\ UNCHANGED <<udpVars, routerVars, mResolvingInProgress, callbacks>>
    BY <1>4 DEF ProcessPing, pingTest
  <2>2. UNCHANGED results \/ \E outcome : Answer(outcome)
    BY <2>1 DEF Ping
  <2>3. results' \in Nat
    BY <2>2, Answered DEF LinesTyped
  <2> QED
    BY <2>1, <2>3, LineTyped DEF LinesTyped, udpVars, routerVars
<1>5. ASSUME NEW line \in Lines, routerPeriodicTest(line)
      PROVE  LinesTyped'
  <2>1. /\ ReadLine(Stored(line))
        /\ \E outcome : Answer(outcome)
        /\ stopRouterOutput' \in BOOLEAN /\ routerOPTimer' \in BOOLEAN
        /\ UNCHANGED <<udpVars, mResolvingInProgress, callbacks>>
    BY <1>5 DEF routerPeriodicTest
  <2>2. results' \in Nat
    BY <2>1, Answered DEF LinesTyped
  <2> QED
    BY <2>1, <2>2, LineTyped DEF LinesTyped, udpVars
<1>6. CASE TooManyArgs
  BY <1>6, CliAssumption DEF TooManyArgs, LinesTyped, udpVars, routerVars
<1>7. CASE ProcessReset \/ ProcessFactoryReset \/ PowerCycle
  <2>1. Restart
    BY <1>7 DEF ProcessReset, ProcessFactoryReset, PowerCycle
  <2>2. 0 \in 0 .. MaxLines
    BY CliAssumption
  <2>3. /\ mServer' = FALSE /\ currentArgv' = <<>> /\ torn' = FALSE /\ lines' = 0
        /\ UDPLoopCounter' = 0 /\ udpTimer' = FALSE /\ sent' = 0
        /\ stopRouterOutput' \in BOOLEAN /\ routerOPTimer' = FALSE
        /\ mResolvingInProgress' = FALSE /\ callbacks' = {}
        /\ fault' = FALSE /\ results' = 0
    BY <2>1 DEF Restart
  <2> QED
    BY <2>2, <2>3 DEF LinesTyped
<1>8. CASE Type
  BY <1>8 DEF Type, LinesTyped, udpVars, routerVars
<1>9. CASE UdpTimer
  <2>1. PICK args : HandleUDPTimer(args, UDPLoopCounter, sent, FALSE)
    BY <1>9 DEF UdpTimer
  <2>2. UDPLoopCounter' \in Nat /\ sent' \in Nat /\ udpTimer' \in BOOLEAN
    BY <2>1 DEF HandleUDPTimer, LinesTyped
  <2> QED
    BY <1>9, <2>2 DEF UdpTimer, LinesTyped, inputVars, routerVars
<1>10. CASE HandleRouterTimer
  BY <1>10 DEF HandleRouterTimer, LinesTyped, inputVars, udpVars
<1>11. ASSUME NEW sends \in BOOLEAN, PingTimer(sends)
       PROVE  LinesTyped'
  BY <1>11 DEF PingTimer, LinesTyped, inputVars, udpVars, routerVars
<1>12. CASE HandleIcmpReceive \/ HandleDiagnosticGetResponse
  BY <1>12 DEF HandleIcmpReceive, HandleDiagnosticGetResponse, LinesTyped, inputVars,
     udpVars, routerVars
<1>13. ASSUME NEW ok \in BOOLEAN, HandleDnsResponse(ok)
       PROVE  LinesTyped'
  <2>1. results' \in Nat /\ mResolvingInProgress' = FALSE /\ callbacks' \subseteq callbacks
    BY <1>13 DEF HandleDnsResponse, LinesTyped
  <2> QED
    BY <1>13, <2>1 DEF HandleDnsResponse, LinesTyped, inputVars, udpVars, routerVars
<1>14. ASSUME NEW end \in BOOLEAN, HandleActiveScanResult(end)
       PROVE  LinesTyped'
  BY <1>14 DEF HandleActiveScanResult, LinesTyped, inputVars, udpVars, routerVars
<1>15. CASE HandleEnergyReport \/ HandlePanIdConflict \/ HandleLinkPcapReceive
            \/ HandleJoinerCallback
  BY <1>15 DEF HandleEnergyReport, HandlePanIdConflict, HandleLinkPcapReceive,
     HandleJoinerCallback, Prints, LinesTyped, inputVars, udpVars, routerVars
<1>16. CASE UNCHANGED vars
  BY <1>16 DEF vars, LinesTyped, inputVars, udpVars, routerVars
<1> QED
  BY <1>1, <1>2, <1>3, <1>4, <1>5, <1>6, <1>7, <1>8, <1>9, <1>10, <1>11, <1>12, <1>13,
     <1>14, <1>15, <1>16 DEF Next, ProcessLine, Event

(* A line gives at most one result or one that is owed.                    *)
LEMMA LineOwes ==
  ASSUME LinesTyped, ResultsOwed, lines' = lines + 1,
         \/ /\ results' \in {results, results + 1}
            /\ Owed(callbacks', routerOPTimer') = Owed(callbacks, routerOPTimer)
         \/ /\ results' = results
            /\ Owed(callbacks', routerOPTimer') \in
                 {Owed(callbacks, routerOPTimer), Owed(callbacks, routerOPTimer) + 1}
  PROVE  ResultsOwed'
<1>1. PICK before \in Nat : before = Owed(callbacks, routerOPTimer)
  BY OwedNat
<1>2. PICK after \in Nat : after = Owed(callbacks', routerOPTimer')
  BY OwedNat
<1>3. lines \in Nat /\ results \in Nat /\ results + before <= lines
  BY <1>1, CliAssumption DEF LinesTyped, ResultsOwed
<1>4. results' + after <= lines'
  BY <1>1, <1>2, <1>3
<1> QED
  BY <1>2, <1>4 DEF ResultsOwed

(* A callback or a timer gives no more than it owed.                       *)
LEMMA EventOwes ==
  ASSUME LinesTyped, ResultsOwed, lines' = lines,
         \/ /\ results' = results
            /\ Owed(callbacks', routerOPTimer') <= Owed(callbacks, routerOPTimer)
         \/ /\ results' = results + 1
            /\ Owed(callbacks', routerOPTimer') + 1 = Owed(callbacks, routerOPTimer)
  PROVE  ResultsOwed'
<1>1. PICK before \in Nat : before = Owed(callbacks, routerOPTimer)
  BY OwedNat
<1>2. PICK after \in Nat : after = Owed(callbacks', routerOPTimer')
  BY OwedNat
<1>3. lines \in Nat /\ results \in Nat /\ results + before <= lines
  BY <1>1, CliAssumption DEF LinesTyped, ResultsOwed
<1>4. results' + after <= lines'
  BY <1>1, <1>2, <1>3
<1> QED
  BY <1>2, <1>4 DEF ResultsOwed

LEMMA OwedStep ==
  LinesTyped /\ ResolvingIsPending /\ ResultsOwed /\ [Next]_vars => ResultsOwed'
<1> SUFFICES ASSUME LinesTyped, ResolvingIsPending, ResultsOwed, [Next]_vars
             PROVE  ResultsOwed'
  OBVIOUS
<1> DEFINE before == Owed(callbacks, routerOPTimer)
           after  == Owed(callbacks', routerOPTimer')
<1>0. results \in Nat
  BY DEF LinesTyped
<1>1. CASE Command
  <2>1. PICK effect \in Effects :
          /\ ReadLine(effect.args) /\ Answer(effect.outcome)
          /\ {"scan"} \cap effect.calls \cap callbacks = {}
          /\ callbacks' = callbacks \cup (effect.calls \cap Reports)
          /\ UNCHANGED routerOPTimer
    BY <1>1 DEF Command, routerVars
  <2>2. lines' = lines + 1 /\ ("scan" \in effect.calls => results' = results)
        /\ results' \in {results, results + 1}
    BY <1>0, <2>1, EffectTrue, Answered DEF ReadLine
  <2>3. "scan" \in effect.calls => "scan" \notin callbacks
    BY <2>1
  <2>4. "dns" \in callbacks' <=> "dns" \in callbacks
    BY <2>1 DEF Reports
  <2>5. "scan" \in callbacks' <=> "scan" \in callbacks \/ "scan" \in effect.calls
    BY <2>1 DEF Reports
  <2>6. IF "scan" \in effect.calls THEN after = before + 1 ELSE after = before
    BY <2>1, <2>3, <2>4, <2>5 DEF Owed, Owing
  <2> QED
    BY <2>2, <2>6, LineOwes
<1>2. ASSUME NEW line \in Lines, NEW api \in ApiOutcomes, ProcessUdp(line, api)
      PROVE  ResultsOwed'
  <2>1. lines' = lines + 1 /\ results' \in {results, results + 1} /\ after = before
    BY <1>0, <1>2, Answered DEF ProcessUdp, ReadLine, routerVars
  <2> QED
    BY <2>1, LineOwes
<1>3. ASSUME NEW line \in Lines, NEW api \in ApiOutcomes, ProcessDns(line, api)
      PROVE  ResultsOwed'
  <2>1. /\ lines' = lines + 1 /\ UNCHANGED routerOPTimer
        /\ \/ /\ mResolvingInProgress = FALSE
              /\ callbacks' = callbacks \cup {"dns"}
              /\ Answer(Outcome(line, Silent({"dns"})))
           \/ Answer(Outcome(line, Refused)) /\ UNCHANGED callbacks
    BY <1>3 DEF ProcessDns, ReadLine, routerVars, ResolvingIsPending
  <2>2. CASE Answer(Outcome(line, Refused)) /\ UNCHANGED callbacks
    <3>1. results' \in {results, results + 1} /\ after = before
      BY <1>0, <2>1, <2>2, Answered
    <3> QED
      BY <2>1, <3>1, LineOwes
  <2>3. CASE /\ mResolvingInProgress = FALSE
             /\ callbacks' = callbacks \cup {"dns"}
             /\ Answer(Outcome(line, Silent({"dns"})))
    <3>1. "dns" \notin callbacks /\ "dns" \in callbacks'
          /\ ("scan" \in callbacks' <=> "scan" \in callbacks)
      BY <2>3 DEF ResolvingIsPending
    <3>2. after = before + 1
      BY <2>1, <3>1 DEF Owed, Owing
    <3>3. Outcome(line, Silent({"dns"})).result = "None"
      BY Replies DEF Outcome
    <3>4. results' = results
      BY <1>0, <2>3, <3>3, Answered
    <3> QED
      BY <2>1, <3>2, <3>4, LineOwes
  <2> QED
    BY <2>1, <2>2, <2>3
<1>4. ASSUME NEW line \in Lines, NEW sends \in BOOLEAN,
             ProcessPing(line, sends) \/ pingTest(line, sends)
      PROVE  ResultsOwed'
  <2>1. /\ lines' = lines + 1 /\ after = before
        /\ \E default : Ping(line, default, sends)
    BY <1>4 DEF ProcessPing, pingTest, ReadLine, routerVars
  <2>2. UNCHANGED results \/ \E outcome : Answer(outcome)
    BY <2>1 DEF Ping
  <2>3. results' \in {results, results + 1}
    BY <1>0, <2>2, Answered
  <2> QED
    BY <2>1, <2>3, LineOwes
<1>5. ASSUME NEW line \in Lines, routerPeriodicTest(line)
      PROVE  ResultsOwed'
  <2> DEFINE stop == Len(line) > 1 /\ line[2] = "stop"
  <2>1. /\ lines' = lines + 1 /\ UNCHANGED callbacks
        /\ routerOPTimer' = (routerOPTimer \/ ~stop)
        /\ Answer(Outcome(line, IF stop THEN Made("output") ELSE Silent({"output"})))
    BY <1>5 DEF routerPeriodicTest, ReadLine
  <2> HIDE DEF stop
  <2>2. CASE stop
    <3>1. results' \in {results, results + 1}
      BY <1>0, <2>1, Answered
    <3>2. after = before
      BY <2>1, <2>2 DEF LinesTyped
    <3> QED
      BY <2>1, <3>1, <3>2, LineOwes
  <2>3. CASE ~stop
    <3>1. Outcome(line, Silent({"output"})).result = "None"
      BY Replies DEF Outcome
    <3>2. results' = results
      BY <1>0, <2>1, <2>3, <3>1, Answered
    <3>3. routerOPTimer' = TRUE
      BY <2>1, <2>3
    <3>4. after = before \/ after = before + 1
      BY <2>1, <3>3 DEF Owed, Owing, LinesTyped
    <3> QED
      BY <2>1, <3>2, <3>4, LineOwes
  <2> QED
    BY <2>2, <2>3
<1>6. CASE TooManyArgs
  <2>1. lines' = lines + 1 /\ results' = results + 1 /\ after = before
    BY <1>6 DEF TooManyArgs, routerVars
  <2> QED
    BY <2>1, LineOwes
<1>7. CASE ProcessReset \/ ProcessFactoryReset \/ PowerCycle
  <2>1. lines' = 0 /\ results' = 0 /\ callbacks' = {} /\ routerOPTimer' = FALSE
    BY <1>7 DEF ProcessReset, ProcessFactoryReset, PowerCycle, Restart
  <2> QED
    BY <2>1 DEF ResultsOwed, Owed, Owing
<1>8. ASSUME lines' = lines, results' = results, UNCHANGED routerOPTimer,
             "dns" \in callbacks' <=> "dns" \in callbacks,
             "scan" \in callbacks' <=> "scan" \in callbacks
      PROVE  ResultsOwed'
  <2>1. after = before /\ before \in Nat
    BY <1>8, OwedNat DEF Owed
  <2> QED
    BY <1>8, <2>1, EventOwes
<1>9. CASE \/ Type \/ UdpTimer \/ HandleIcmpReceive \/ HandleDiagnosticGetResponse
           \/ \E sends \in BOOLEAN : PingTimer(sends)
           \/ HandleEnergyReport \/ HandlePanIdConflict
           \/ HandleLinkPcapReceive \/ HandleJoinerCallback
  <2>1. /\ lines' = lines /\ results' = results /\ UNCHANGED routerOPTimer
        /\ "dns" \in callbacks' <=> "dns" \in callbacks
        /\ "scan" \in callbacks' <=> "scan" \in callbacks
    BY <1>9 DEF Type, UdpTimer, PingTimer, HandleIcmpReceive, HandleDiagnosticGetResponse,
       HandleEnergyReport, HandlePanIdConflict, HandleLinkPcapReceive, HandleJoinerCallback,
       Prints, inputVars, routerVars
  <2> QED
    BY <1>8, <2>1
<1>10. CASE HandleRouterTimer
  <2>1. /\ lines' = lines /\ UNCHANGED callbacks /\ routerOPTimer = TRUE
        /\ routerOPTimer' = ~stopRouterOutput
        /\ results' = IF stopRouterOutput THEN results + 1 ELSE results
    BY <1>10 DEF HandleRouterTimer, inputVars, LinesTyped
  <2>2. CASE stopRouterOutput
    <3>1. routerOPTimer' = FALSE /\ results' = results + 1
      BY <2>1, <2>2
    <3>2. after + 1 = before
      BY <2>1, <3>1 DEF Owed, Owing
    <3> QED
      BY <2>1, <3>1, <3>2, EventOwes
  <2>3. CASE ~stopRouterOutput
    BY <1>8, <2>1, <2>3
  <2> QED
    BY <2>2, <2>3
<1>11. ASSUME NEW ok \in BOOLEAN, HandleDnsResponse(ok)
       PROVE  ResultsOwed'
  <2>1. /\ lines' = lines /\ UNCHANGED routerOPTimer
        /\ results' \in {results, results + 1}
        /\ "dns" \in callbacks /\ "dns" \notin callbacks'
        /\ "scan" \in callbacks' <=> "scan" \in callbacks
    BY <1>11 DEF HandleDnsResponse, inputVars, routerVars
  <2>2. after + 1 = before /\ after <= before
    BY <2>1, OwedNat DEF Owed, Owing
  <2> QED
    BY <2>1, <2>2, EventOwes
<1>12. ASSUME NEW end \in BOOLEAN, HandleActiveScanResult(end)
       PROVE  ResultsOwed'
  <2>1. CASE end
    <3>1. /\ lines' = lines /\ UNCHANGED routerOPTimer
          /\ results' = results + 1
          /\ "scan" \in callbacks /\ "scan" \notin callbacks'
          /\ "dns" \in callbacks' <=> "dns" \in callbacks
      BY <1>12, <2>1 DEF HandleActiveScanResult, inputVars, routerVars
    <3>2. after + 1 = before
      BY <3>1 DEF Owed, Owing
    <3> QED
      BY <3>1, <3>2, EventOwes
  <2>2. CASE ~end
    BY <1>8, <1>12, <2>2 DEF HandleActiveScanResult, inputVars, routerVars
  <2> QED
    BY <2>1, <2>2
<1>13. CASE UNCHANGED vars
  BY <1>8, <1>13 DEF vars, inputVars, routerVars
<1> QED
  BY <1>1, <1>2, <1>3, <1>4, <1>5, <1>6, <1>7, <1>9, <1>10, <1>11, <1>12, <1>13
     DEF Next, ProcessLine, Event

(* Together, what the interpreter keeps true.                              *)
CliInv ==
    /\ LinesTyped /\ PingTyped
    /\ PingCount /\ ResolvingIsPending /\ ResultsOwed
    /\ AnswerTrue(last)

LEMMA CliInvInit == Init => CliInv
<1> SUFFICES ASSUME Init PROVE CliInv
  OBVIOUS
<1>1. LinesTyped
  <2>1. 0 \in 0 .. MaxLines
    BY CliAssumption
  <2> QED
    BY <2>1 DEF Init, Interpreter, LinesTyped
<1>2. ResolvingIsPending /\ AnswerTrue(last)
  BY DEF Init, Interpreter, ResolvingIsPending, AnswerTrue, NoAnswer
<1>3. PingTyped /\ PingCount
  BY Modulus DEF Init, Interpreter, PingTyped, PingCount
<1>4. ResultsOwed
  BY DEF Init, Interpreter, ResultsOwed, Owed, Owing
<1> QED
  BY <1>1, <1>2, <1>3, <1>4 DEF CliInv

LEMMA CliInvStep == CliInv /\ [Next]_vars => CliInv'
<1> SUFFICES ASSUME CliInv, [Next]_vars PROVE CliInv'
  OBVIOUS
<1>1. AnswerTrue(NoAnswer)
  BY DEF AnswerTrue, NoAnswer
<1>2. AnswerTrue(last)'
  BY <1>1, AnswerStep DEF CliInv
<1> QED
  BY <1>2, LinesStep, PingInvariant, ResolvingStep, OwedStep DEF CliInv

(* A ping sends what was asked for, whatever a request meets on its way    *)
(* out and whatever is typed meanwhile; and every variable keeps to its    *)
(* type (HandlePingTimer, ProcessPing).                                    *)
THEOREM ConsistentCli == Spec => []CliConsistent
<1>1. CliInv => CliConsistent
  BY DEF CliInv, LinesTyped, PingTyped, AnswerTrue, CliConsistent, CliTypeOK
<1> QED
  BY <1>1, CliInvInit, CliInvStep, PTL DEF Spec

(* Every result line belongs to a line that was read, those of the scan,   *)
(* of the DNS query and of the stopped router output included, however     *)
(* they overlap.                                                           *)
THEOREM ResultsBelong == Spec => []ResultsFollowLines
<1>1. CliInv => ResultsFollowLines
  <2> SUFFICES ASSUME CliInv PROVE ResultsFollowLines
    OBVIOUS
  <2>1. PICK owed \in Nat : owed = Owed(callbacks, routerOPTimer)
    BY OwedNat
  <2>2. results + owed <= lines /\ results \in Nat /\ lines \in Nat
    BY <2>1, CliAssumption DEF CliInv, ResultsOwed, LinesTyped
  <2> QED
    BY <2>2 DEF ResultsFollowLines
<1> QED
  BY <1>1, CliInvInit, CliInvStep, PTL DEF Spec
=============================================================================
