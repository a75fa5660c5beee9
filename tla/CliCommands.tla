---------------------------- MODULE CliCommands ----------------------------
(***************************************************************************)
(* The commands of the OpenThread command line (cli.cpp) that are answered *)
(* before the interpreter returns.  A command is a function of its         *)
(* arguments and of what the Thread stack says to its calls; its reply is  *)
(* the result line it prints and the set of changes it made to the device. *)
(* What is printed between the two is left out.                            *)
(***************************************************************************)
EXTENDS Naturals, Sequences

(* What the calls of a line return: all succeed; the first finds the entry *)
(* already there; the first fails; only a second one fails.                *)
ApiOutcomes == {"OK", "ALREADY", "FAILED", "SECOND_FAILED"}
Accepted(api) == api \in {"OK", "SECOND_FAILED"}

(* Arguments are words.  "junk" parses as nothing.                         *)
Long == [w \in {"0", "1", "2", "9"} |->
           CASE w = "0" -> 0 [] w = "1" -> 1 [] w = "2" -> 2 [] w = "9" -> 9]
ParseLong(word) == word \in DOMAIN Long
IsAddress(word) == word = "addr"
Hex2Bin(word) == word = "hex"
HasLength(word) == word \in {"net/64", "net/junk", "junk/64"}

----------------------------------------------------------------------------
AppendResult(ok, made) == [result |-> IF ok THEN "Done" ELSE "Error", made |-> made]
Silent(made) == [result |-> "None", made |-> made]

Shown   == AppendResult(TRUE, {})
Refused == AppendResult(FALSE, {})
Made(change) == AppendResult(TRUE, {change})
Verify(ok, reply) == IF ok THEN reply ELSE Refused
Call(api, change) == Verify(Accepted(api), Made(change))
Query(api) == Verify(Accepted(api), Shown)
\* A call whose error is dropped: Done whatever it came to.
Unchecked(api, change) == AppendResult(TRUE, IF Accepted(api) THEN {change} ELSE {})

(* A setting: shown without arguments, else parsed and set.                *)
Setting(args, Parses(_), reply) ==
    IF args = <<>> THEN Shown ELSE Verify(Parses(args[1]), reply)
LongSetting(args, reply) == Setting(args, ParseLong, reply)
Choice(args, words, reply) == Setting(args, LAMBDA w : w \in words, reply)
AllLong(args, first, last) == \A i \in first .. last : ParseLong(args[i])

----------------------------------------------------------------------------
(* help to extaddr.                                                        *)
ProcessHelp(args, api) == Silent({})
GPIOSet(args, api) == Made("gpio")
ProcessAutoStart(args, api) == Choice(args, {"true", "false"}, Call(api, "autostart"))
ProcessBufferInfo(args, api) == Shown
ProcessChannel(args, api) == LongSetting(args, Call(api, "channel"))
ProcessChild(args, api) ==
    Verify(args # <<>>,
           IF args[1] \in {"table", "list"} THEN Shown
           ELSE Verify(ParseLong(args[1]), Query(api)))
ProcessChildMax(args, api) == LongSetting(args, Call(api, "childmax"))
ProcessChildTimeout(args, api) == LongSetting(args, Made("childtimeout"))
ProcessCoap(args, api) == Call(api, "coap")
(* A word that is no number ends the command without an error.             *)
ProcessContextIdReuseDelay(args, api) ==
    IF args = <<>> \/ ~ParseLong(args[1]) THEN Shown ELSE Made("contextreusedelay")
ProcessCounters(args, api) == Silent({})
ProcessDataset(args, api) == Call(api, "dataset")
ProcessDelayTimerMin(args, api) ==
    Verify(Len(args) < 2, LongSetting(args, Call(api, "delaytimermin")))
ProcessDiag(args, api) == Silent({})

ProcessEidCache(args, api) == Shown
ProcessEui64(args, api) == Verify(args = <<>>, Shown)
ProcessExtAddress(args, api) == Setting(args, Hex2Bin, Call(api, "extaddr"))
ProcessExtPanId(args, api) == Setting(args, Hex2Bin, Call(api, "extpanid"))
ProcessIfconfig(args, api) == Choice(args, {"up", "down"}, Call(api, "ifconfig"))

ProcessIpAddrAdd(args, api) ==
    Verify(args # <<>> /\ IsAddress(args[1]), Call(api, "ipaddr"))
ProcessIpAddrDel(args, api) ==
    Verify(args # <<>> /\ IsAddress(args[1]), Call(api, "ipaddr"))
ProcessIpAddr(args, api) ==
    CASE args = <<>> -> Shown
      [] args # <<>> /\ args[1] = "add" -> ProcessIpAddrAdd(Tail(args), api)
      [] args # <<>> /\ args[1] = "del" -> ProcessIpAddrDel(Tail(args), api)
      [] OTHER -> Refused

ProcessIpMulticastAddrAdd(args, api) ==
    Verify(args # <<>> /\ IsAddress(args[1]), Call(api, "ipmaddr"))
ProcessIpMulticastAddrDel(args, api) ==
    Verify(args # <<>> /\ IsAddress(args[1]), Call(api, "ipmaddr"))
ProcessMulticastPromiscuous(args, api) ==
    Choice(args, {"enable", "disable"}, Made("ipmaddr promiscuous"))
ProcessIpMulticastAddr(args, api) ==
    CASE args = <<>> -> Shown
      [] args # <<>> /\ args[1] = "add" -> ProcessIpMulticastAddrAdd(Tail(args), api)
      [] args # <<>> /\ args[1] = "del" -> ProcessIpMulticastAddrDel(Tail(args), api)
      [] args # <<>> /\ args[1] = "promiscuous" ->
           ProcessMulticastPromiscuous(Tail(args), api)
      [] OTHER -> Refused

ProcessKeySequence(args, api) ==
    Verify(Len(args) \in {1, 2} /\ args[1] \in {"counter", "guardtime"},
           LongSetting(Tail(args), Made("keysequence")))
ProcessLeaderData(args, api) == Query(api)
ProcessLeaderPartitionId(args, api) == LongSetting(args, Made("leaderpartitionid"))
ProcessLeaderWeight(args, api) == LongSetting(args, Made("leaderweight"))
ProcessPSKc(args, api) == Setting(args, Hex2Bin, Call(api, "pskc"))
ProcessMasterKey(args, api) == Setting(args, Hex2Bin, Call(api, "masterkey"))
ProcessMode(args, api) == Choice(args, {"rsdn"}, Call(api, "mode"))
ProcessNeighbor(args, api) ==
    Verify(args # <<>> /\ args[1] \in {"table", "list"}, Shown)
ProcessNetworkDataShow(args, api) == Query(api)
ProcessService(args, api) ==
    Verify(/\ args # <<>>
           /\ \/ args[1] = "add" /\ Len(args) > 3
              \/ args[1] = "remove" /\ Len(args) > 2
           /\ ParseLong(args[2]),
           Call(api, "service"))
ProcessNetworkDataRegister(args, api) == Call(api, "netdataregister")
ProcessNetworkIdTimeout(args, api) == LongSetting(args, Made("networkidtimeout"))
ProcessNetworkName(args, api) == Setting(args, LAMBDA w : TRUE, Call(api, "networkname"))
ProcessPanId(args, api) == LongSetting(args, Call(api, "panid"))
ProcessParent(args, api) == Query(api)
ProcessParentPriority(args, api) == LongSetting(args, Call(api, "parentpriority"))
ProcessPollPeriod(args, api) == LongSetting(args, Made("pollperiod"))

(* The capture callback is changed before the mode, and stays changed.     *)
ProcessPromiscuous(args, api) ==
    Choice(args, {"enable", "disable"},
           AppendResult(Accepted(api),
                        {"pcap"} \cup IF Accepted(api) THEN {"promiscuous"} ELSE {}))

----------------------------------------------------------------------------
(* Prefixes and routes.  A prefix without '/' ends the command without an  *)
(* error.  (`prefix add' with nothing after it reads past the arguments;   *)
(* it is not among the lines.)                                             *)
PrefixCall(args, api, words, change) ==
    IF ~HasLength(args[1]) THEN Shown
    ELSE Verify(/\ args[1] = "net/64"
                /\ \A i \in 2 .. Len(args) : args[i] \in words,
                Call(api, change))

ProcessPrefixAdd(args, api) ==
    PrefixCall(args, api, {"high", "med", "low", "paros"}, "prefix")
ProcessPrefixRemove(args, api) == PrefixCall(<<args[1]>>, api, {}, "prefix")
ProcessPrefixList == Shown
ProcessPrefix(args, api) ==
    CASE args = <<>> -> ProcessPrefixList
      [] args # <<>> /\ args[1] = "add" -> ProcessPrefixAdd(Tail(args), api)
      [] args # <<>> /\ args[1] = "remove" -> ProcessPrefixRemove(Tail(args), api)
      [] OTHER -> Refused

ProcessRouteAdd(args, api) ==
    Verify(args # <<>>, PrefixCall(args, api, {"high", "med", "low", "s"}, "route"))
ProcessRouteRemove(args, api) ==
    Verify(args # <<>>, PrefixCall(<<args[1]>>, api, {}, "route"))
ProcessRouteList == Shown
ProcessRoute(args, api) ==
    CASE args = <<>> -> ProcessRouteList
      [] args # <<>> /\ args[1] = "add" -> ProcessRouteAdd(Tail(args), api)
      [] args # <<>> /\ args[1] = "remove" -> ProcessRouteRemove(Tail(args), api)
      [] OTHER -> Refused

----------------------------------------------------------------------------
ProcessReleaseRouterId(args, api) ==
    Verify(args # <<>> /\ ParseLong(args[1]), Call(api, "releaserouterid"))
ProcessRloc16(args, api) == Shown
ProcessRouter(args, api) ==
    Verify(args # <<>>,
           IF args[1] \in {"table", "list"} THEN Shown
           ELSE Verify(ParseLong(args[1]), Query(api)))
ProcessRouterDowngradeThreshold(args, api) ==
    LongSetting(args, Made("routerdowngradethreshold"))
ProcessRouterRole(args, api) ==
    Choice(args, {"enable", "disable"}, Made("routerrole"))
(* Slip: the range is checked after the call.                              *)
ProcessRouterSelectionJitterSlip(args, api) ==
    LongSetting(args, AppendResult(Long[args[1]] \in 1 .. 255, {"routerselectionjitter"}))
ProcessRouterSelectionJitter(args, api) ==
    LongSetting(args, Verify(Long[args[1]] \in 1 .. 255, Made("routerselectionjitter")))
ProcessRouterUpgradeThreshold(args, api) ==
    LongSetting(args, Made("routerupgradethreshold"))
ProcessSingleton(args, api) == Shown
ProcessState(args, api) ==
    Choice(args, {"detached", "child", "router", "leader"}, Call(api, "state"))
ProcessThread(args, api) ==
    Verify(args # <<>> /\ args[1] \in {"start", "stop"}, Call(api, "thread"))
ProcessTxPower(args, api) ==
    IF args = <<>> THEN Query(api)
    ELSE Verify(ParseLong(args[1]), Call(api, "txpower"))
ProcessVersion(args, api) == Shown

----------------------------------------------------------------------------
(* The commissioner.  Its sub-commands get the arguments from their own    *)
(* name on.                                                                *)
CommissionerJoiner(args, api) ==
    Verify(/\ Len(args) > 2
           /\ args[3] \in {"*", "hex"},
           CASE args[2] = "add" ->
                  Verify(Len(args) > 3 /\ AllLong(args, 5, Len(args)), Call(api, "joiner"))
             [] args[2] = "remove" -> Call(api, "joiner")
             [] OTHER -> Shown)
CommissionerAnnounce(args, api) ==
    Verify(Len(args) > 4 /\ AllLong(args, 2, 4) /\ IsAddress(args[5]), Call(api, "announce"))
CommissionerEnergy(args, api) ==
    Verify(Len(args) > 5 /\ AllLong(args, 2, 5) /\ IsAddress(args[6]), Call(api, "energy"))
CommissionerPanId(args, api) ==
    Verify(Len(args) > 3 /\ AllLong(args, 2, 3) /\ IsAddress(args[4]),
           Call(api, "conflict"))

(* Names of TLVs, "binary" with the bytes after it.                        *)
CommissionerMgmtGet(args, api) ==
    LET Names == {"locator", "sessionid", "steeringdata", "joinerudpport"}
        Parses[i \in 2 .. Len(args) + 2] ==
          \/ i = Len(args) + 1
          \/ i <= Len(args) /\ args[i] \in Names /\ Parses[i + 1]
          \/ i < Len(args) /\ args[i] = "binary" /\ Hex2Bin(args[i + 1]) /\ Parses[i + 2]
    IN Verify(Parses[2], Call(api, "mgmtget"))
(* Names, each with its value.                                             *)
CommissionerMgmtSet(args, api) ==
    LET Value(name, word) == IF name \in {"steeringdata", "binary"} THEN Hex2Bin(word)
                             ELSE /\ name \in {"locator", "sessionid", "joinerudpport"}
                                  /\ ParseLong(word)
    IN Verify(/\ Len(args) % 2 = 1
              /\ \A i \in {j \in 2 .. Len(args) : j % 2 = 0} : Value(args[i], args[i + 1]),
              Call(api, "mgmtset"))

ProcessCommissioner(args, api) ==
    CASE args = <<>> -> Refused
      [] args # <<>> /\ args[1] \in {"start", "stop", "provisioningurl"} ->
           Call(api, "commissioner")
      [] args # <<>> /\ args[1] = "joiner" -> CommissionerJoiner(args, api)
      [] args # <<>> /\ args[1] = "announce" -> CommissionerAnnounce(args, api)
      [] args # <<>> /\ args[1] = "energy" -> CommissionerEnergy(args, api)
      [] args # <<>> /\ args[1] = "panid" -> CommissionerPanId(args, api)
      [] args # <<>> /\ args[1] = "mgmtget" -> CommissionerMgmtGet(args, api)
      [] args # <<>> /\ args[1] = "mgmtset" -> CommissionerMgmtSet(args, api)
      [] args # <<>> /\ args[1] = "sessionid" -> Shown
      [] OTHER -> Refused

(* What otJoinerStart and otJoinerStop answer is not looked at.            *)
ProcessJoiner(args, api) ==
    CASE Len(args) > 1 /\ args[1] = "start" -> Unchecked(api, "join")
      [] args # <<>> /\ args[1] = "stop" -> Unchecked(api, "join stop")
      [] OTHER -> Refused
ProcessJoinerId(args, api) == Verify(args = <<>>, Shown)
ProcessJoinerPort(args, api) == LongSetting(args, Call(api, "joinerport"))

----------------------------------------------------------------------------
(* The MAC filter.  An address is added first and its signal strength      *)
(* after; when that fails the address stays.                               *)
AddFilterAddress(args, api) ==
    LET added == IF Accepted(api) THEN {"filter address"} ELSE {}
    IN CASE api = "FAILED" -> Refused
         [] api # "FAILED" /\ Len(args) = 2 -> AppendResult(Accepted(api), added)
         [] api # "FAILED" /\ Len(args) = 3 /\ ParseLong(args[3]) /\ api # "SECOND_FAILED" ->
              AppendResult(TRUE, added \cup {"filter rss"})
         [] OTHER -> AppendResult(FALSE, added)

ProcessMacFilterAddress(args, api) ==
    CASE args = <<>> -> Shown
      [] Len(args) = 1 /\ args[1] \in {"disable", "whitelist", "blacklist"} ->
           Call(api, "filter mode")
      [] Len(args) > 1 /\ args[1] = "add" /\ Hex2Bin(args[2]) -> AddFilterAddress(args, api)
      [] Len(args) = 2 /\ args[1] = "remove" /\ Hex2Bin(args[2]) ->
           Call(api, "filter address")
      [] Len(args) = 1 /\ args[1] = "clear" -> Made("filter address")
      [] OTHER -> Refused

ProcessMacFilterRss(args, api) ==
    LET Target(word) == word = "*" \/ Hex2Bin(word)
    IN CASE args = <<>> -> Shown
         [] /\ Len(args) = 3
            /\ \/ args[1] = "add"
               \/ args[1] = "add-lqi" /\ args[3] \in {"0", "1", "2"}
            /\ ParseLong(args[3]) /\ Target(args[2]) -> Call(api, "filter rss")
         [] Len(args) = 2 /\ args[1] = "remove" /\ Target(args[2]) -> Call(api, "filter rss")
         [] args # <<>> /\ args[1] = "clear" -> Made("filter rss")
         [] OTHER -> Refused

PrintMacFilter == Shown
ProcessMacFilter(args, api) ==
    CASE args = <<>> -> PrintMacFilter
      [] args # <<>> /\ args[1] = "addr" -> ProcessMacFilterAddress(Tail(args), api)
      [] args # <<>> /\ args[1] = "rss" -> ProcessMacFilterRss(Tail(args), api)
      [] OTHER -> Refused

----------------------------------------------------------------------------
(* The commands that start something and return; Cli says how it ends.     *)
ProcessDiscover(args, api) ==
    Verify((args # <<>> => ParseLong(args[1])) /\ Accepted(api), Silent({"scan"}))
ProcessScan(args, api) ==
    Verify((args # <<>> => ParseLong(args[1])) /\ Accepted(api), Silent({"scan"}))
(* Neither of the two looks at what its call answers.                      *)
ProcessNetworkDiagnostic(args, api) ==
    Verify(/\ Len(args) > 2
           /\ IsAddress(args[2])
           /\ AllLong(args, 3, Len(args))
           /\ args[1] \in {"get", "reset"},
           IF args[1] = "get" THEN Silent(IF Accepted(api) THEN {"diag"} ELSE {})
           ELSE Unchecked(api, "diag reset"))

----------------------------------------------------------------------------
(* sCommands, for the commands above.                                      *)
Process(command, args, api) ==
    CASE command = "help" -> ProcessHelp(args, api)
      [] command = "GPIO" -> GPIOSet(args, api)
      [] command = "autostart" -> ProcessAutoStart(args, api)
      [] command = "bufferinfo" -> ProcessBufferInfo(args, api)
      [] command = "channel" -> ProcessChannel(args, api)
      [] command = "child" -> ProcessChild(args, api)
      [] command = "childmax" -> ProcessChildMax(args, api)
      [] command = "childtimeout" -> ProcessChildTimeout(args, api)
      [] command = "coap" -> ProcessCoap(args, api)
      [] command = "commissioner" -> ProcessCommissioner(args, api)
      [] command = "contextreusedelay" -> ProcessContextIdReuseDelay(args, api)
      [] command = "counter" -> ProcessCounters(args, api)
      [] command = "dataset" -> ProcessDataset(args, api)
      [] command = "delaytimermin" -> ProcessDelayTimerMin(args, api)
      [] command = "diag" -> ProcessDiag(args, api)
      [] command = "discover" -> ProcessDiscover(args, api)
      [] command = "eidcache" -> ProcessEidCache(args, api)
      [] command = "eui64" -> ProcessEui64(args, api)
      [] command = "extaddr" -> ProcessExtAddress(args, api)
      [] command = "extpanid" -> ProcessExtPanId(args, api)
      [] command = "ifconfig" -> ProcessIfconfig(args, api)
      [] command = "ipaddr" -> ProcessIpAddr(args, api)
      [] command = "ipmaddr" -> ProcessIpMulticastAddr(args, api)
      [] command = "joiner" -> ProcessJoiner(args, api)
      [] command = "joinerid" -> ProcessJoinerId(args, api)
      [] command = "joinerport" -> ProcessJoinerPort(args, api)
      [] command = "keysequence" -> ProcessKeySequence(args, api)
      [] command = "leaderdata" -> ProcessLeaderData(args, api)
      [] command = "leaderpartitionid" -> ProcessLeaderPartitionId(args, api)
      [] command = "leaderweight" -> ProcessLeaderWeight(args, api)
      [] command = "macfilter" -> ProcessMacFilter(args, api)
      [] command = "masterkey" -> ProcessMasterKey(args, api)
      [] command = "mode" -> ProcessMode(args, api)
      [] command = "neighbor" -> ProcessNeighbor(args, api)
      [] command = "netdataregister" -> ProcessNetworkDataRegister(args, api)
      [] command = "netdatashow" -> ProcessNetworkDataShow(args, api)
      [] command = "networkdiagnostic" -> ProcessNetworkDiagnostic(args, api)
      [] command = "networkidtimeout" -> ProcessNetworkIdTimeout(args, api)
      [] command = "networkname" -> ProcessNetworkName(args, api)
      [] command = "panid" -> ProcessPanId(args, api)
      [] command = "parent" -> ProcessParent(args, api)
      [] command = "parentpriority" -> ProcessParentPriority(args, api)
      [] command = "pollperiod" -> ProcessPollPeriod(args, api)
      [] command = "prefix" -> ProcessPrefix(args, api)
      [] command = "promiscuous" -> ProcessPromiscuous(args, api)
      [] command = "pskc" -> ProcessPSKc(args, api)
      [] command = "releaserouterid" -> ProcessReleaseRouterId(args, api)
      [] command = "rloc16" -> ProcessRloc16(args, api)
      [] command = "route" -> ProcessRoute(args, api)
      [] command = "router" -> ProcessRouter(args, api)
      [] command = "routerdowngradethreshold" -> ProcessRouterDowngradeThreshold(args, api)
      [] command = "routerrole" -> ProcessRouterRole(args, api)
      [] command = "routerselectionjitter" -> ProcessRouterSelectionJitter(args, api)
      [] command = "routerupgradethreshold" -> ProcessRouterUpgradeThreshold(args, api)
      [] command = "scan" -> ProcessScan(args, api)
      [] command = "service" -> ProcessService(args, api)
      [] command = "singleton" -> ProcessSingleton(args, api)
      [] command = "state" -> ProcessState(args, api)
      [] command = "thread" -> ProcessThread(args, api)
      [] command = "txpower" -> ProcessTxPower(args, api)
      [] command = "version" -> ProcessVersion(args, api)
      [] OTHER -> Refused
=============================================================================
