-------------------------------- MODULE Cli --------------------------------
(***************************************************************************)
(* The interpreter behind the OpenThread command line: one line at a time, *)
(* with pings, UDP repetitions, the periodic router output, scans and DNS  *)
(* queries going on between the lines.  The text of a line stays in the    *)
(* buffer of the serial port: the UDP timer reads its arguments there when *)
(* it fires, whatever has been typed since.                                *)
(***************************************************************************)
EXTENDS CliCommands

CONSTANTS
    Lines,           \* the lines that are typed: sequences of words
    MaxLines,        \* bound: lines between two restarts
    CountModulus     \* mCount is a 16-bit counter

(* The two prefix lines that read past their arguments are left out.       *)
ASSUME CliAssumption ==
    /\ MaxLines \in Nat /\ CountModulus \in Nat \ {0}
    /\ Lines \subseteq Seq(STRING) \ {<<>>, <<"prefix", "add">>, <<"prefix", "remove">>}

VARIABLES
    mServer,               \* mServer is not NULL
    currentArgv,           \* stored arguments of a UDP send, <<>> if other ones
    torn,                  \* the buffer behind currentArgv has been overwritten
    UDPLoopCounter, udpTimer,
    mCount, mPingTimer,
    stopRouterOutput, routerOPTimer,
    mResolvingInProgress,
    callbacks,             \* what the Thread stack will call back for
    network,               \* answers other nodes still owe this one
    fault,                 \* the program went through the NULL server
    lines, results,        \* since the start: lines read, results printed
    last,                  \* the last line answered at once
    asked, pinged,         \* requests the last ping was to send, has sent
    sent                   \* times the last udp line has been sent

udpVars    == <<UDPLoopCounter, udpTimer, sent>>
pingVars   == <<mCount, mPingTimer, asked, pinged>>
routerVars == <<stopRouterOutput, routerOPTimer>>
inputVars  == <<mServer, currentArgv, torn, lines>>
vars == <<inputVars, udpVars, pingVars, routerVars, mResolvingInProgress,
          callbacks, network, fault, results, last>>

Reports == {"scan", "energy", "conflict", "join", "pcap"}
NoAnswer == [asked |-> "query", result |-> "None", changed |-> FALSE]

CliTypeOK ==
    /\ mServer \in BOOLEAN /\ torn \in BOOLEAN /\ fault \in BOOLEAN
    /\ currentArgv = <<>> \/ \E line \in Lines : currentArgv = Tail(line)
    /\ UDPLoopCounter \in Nat /\ sent \in Nat /\ udpTimer \in BOOLEAN
    /\ mCount \in 0 .. CountModulus - 1 /\ asked \in Nat /\ pinged \in Nat
    /\ mPingTimer \in BOOLEAN
    /\ stopRouterOutput \in BOOLEAN /\ routerOPTimer \in BOOLEAN
    /\ mResolvingInProgress \in BOOLEAN
    /\ callbacks \subseteq Reports \cup {"dns"} /\ network \subseteq {"echo", "diag"}
    /\ lines \in 0 .. MaxLines /\ results \in Nat
    /\ last \in [asked : {"query", "change", "two changes", "ignored"}, result : {"Done", "Error", "None"},
                 changed : BOOLEAN]

(* The constructor, when everything the last run left behind is gone but   *)
(* the answers other nodes still send.                                     *)
Interpreter ==
    /\ mServer = FALSE /\ currentArgv = <<>> /\ torn = FALSE /\ lines = 0
    /\ UDPLoopCounter = 0 /\ udpTimer = FALSE /\ sent = 0
    /\ mCount = 1 % CountModulus /\ mPingTimer = FALSE /\ asked = 0 /\ pinged = 0
    /\ stopRouterOutput \in BOOLEAN /\ routerOPTimer = FALSE
    /\ mResolvingInProgress = FALSE /\ callbacks = {}
    /\ fault = FALSE /\ results = 0 /\ last = NoAnswer

Init == Interpreter /\ network = {}
Restart ==
    /\ mServer' = FALSE /\ currentArgv' = <<>> /\ torn' = FALSE /\ lines' = 0
    /\ UDPLoopCounter' = 0 /\ udpTimer' = FALSE /\ sent' = 0
    /\ mCount' = 1 % CountModulus /\ mPingTimer' = FALSE /\ asked' = 0 /\ pinged' = 0
    /\ stopRouterOutput' \in BOOLEAN /\ routerOPTimer' = FALSE
    /\ mResolvingInProgress' = FALSE /\ callbacks' = {}
    /\ fault' = FALSE /\ results' = 0 /\ last' = NoAnswer
    /\ UNCHANGED network

----------------------------------------------------------------------------
(* ProcessLine stores the arguments before the command runs.               *)
Stored(line) == IF Len(line) > 1 /\ line[2] = "send" THEN Tail(line) ELSE <<>>
StoredLines == {Stored(line) : line \in Lines}

(* For the properties: what a line asks for.  A setting is shown when its   *)
(* command is given alone.  Two commands make their change in two calls.   *)
(* Seven may answer Done and have done nothing: contextreusedelay, prefix, *)
(* route and commissioner joiner end without an error on a word they do    *)
(* not know; joiner start, joiner stop and networkdiagnostic reset drop    *)
(* the error of their call (the other calls that are not looked at return  *)
(* none).                                                                  *)
QueryCommands ==
    {"bufferinfo", "child", "eidcache", "eui64", "joinerid", "leaderdata", "neighbor",
     "netdatashow", "parent", "rloc16", "router", "singleton", "version"}
Settings ==
    {"autostart", "channel", "childmax", "childtimeout", "contextreusedelay",
     "delaytimermin", "extaddr", "extpanid", "ifconfig", "ipaddr", "ipmaddr", "joinerport",
     "leaderpartitionid", "leaderweight", "macfilter", "masterkey", "mode",
     "networkidtimeout", "networkname", "panid", "parentpriority", "pollperiod", "prefix",
     "promiscuous", "pskc", "route", "routerdowngradethreshold", "routerrole",
     "routerselectionjitter", "routerupgradethreshold", "state", "txpower"}
SubSettings == {<<"ipmaddr", "promiscuous">>, <<"keysequence", "counter">>,
                <<"keysequence", "guardtime">>, <<"macfilter", "addr">>,
                <<"macfilter", "rss">>}

AsksOnly(command, args) ==
    \/ command \in QueryCommands
    \/ command \in Settings /\ args = <<>>
    \/ Len(args) = 1 /\ <<command, args[1]>> \in SubSettings
    \/ command = "commissioner" /\ args # <<>> /\ args[1] = "sessionid"
TwoCalls(command, args) ==
    \/ command = "promiscuous"
    \/ command = "macfilter" /\ Len(args) > 3 /\ args[1] = "addr" /\ args[2] = "add"
SkipsWord(command, args) ==
    \/ command = "contextreusedelay" /\ args # <<>> /\ ~ParseLong(args[1])
    \/ command \in {"prefix", "route"} /\ Len(args) > 1 /\ ~HasLength(args[2])
    \/ /\ command = "commissioner" /\ Len(args) > 2
       /\ args[1] = "joiner" /\ args[2] \notin {"add", "remove"}
DropsError(command, args) ==
    \/ command = "joiner" /\ args # <<>> /\ args[1] \in {"start", "stop"}
    \/ command = "networkdiagnostic" /\ args # <<>> /\ args[1] = "reset"
Ignores(command, args) == SkipsWord(command, args) \/ DropsError(command, args)

Asked(line) ==
    CASE AsksOnly(Head(line), Tail(line)) -> "query"
      [] ~AsksOnly(Head(line), Tail(line)) /\ TwoCalls(Head(line), Tail(line)) -> "two changes"
      [] ~AsksOnly(Head(line), Tail(line)) /\ Ignores(Head(line), Tail(line)) -> "ignored"
      [] OTHER -> "change"

ReadLine(args) ==
    /\ ~fault /\ lines < MaxLines
    /\ lines' = lines + 1
    /\ mServer' = TRUE
    /\ currentArgv' = args
    /\ torn' = FALSE
    /\ UNCHANGED fault
Outcome(line, reply) == [asked |-> Asked(line), result |-> reply.result,
                         changed |-> reply.made # {}]
Answer(outcome) ==
    /\ results' = IF outcome.result = "None" THEN results ELSE results + 1
    /\ last' = outcome

(* Slip: mServer is set after the arguments are counted.                   *)
TooManyArgsSlip ==
    /\ ~fault /\ lines < MaxLines
    /\ lines' = lines + 1
    /\ fault' = ~mServer
    /\ torn' = TRUE
    /\ results' = results + 1
    /\ UNCHANGED <<mServer, currentArgv, udpVars, pingVars, routerVars,
                   mResolvingInProgress, callbacks, network, last>>
(* A line with too many arguments is refused before they are stored.       *)
TooManyArgs ==
    /\ ~fault /\ lines < MaxLines
    /\ lines' = lines + 1
    /\ mServer' = TRUE
    /\ torn' = TRUE
    /\ results' = results + 1
    /\ UNCHANGED <<currentArgv, udpVars, pingVars, routerVars,
                   mResolvingInProgress, callbacks, network, fault, last>>

(* The serial port receives part of the next line.                         *)
Type ==
    /\ ~fault /\ udpTimer
    /\ torn' = TRUE
    /\ UNCHANGED <<mServer, currentArgv, lines, udpVars, pingVars, routerVars,
                   mResolvingInProgress, callbacks, network, fault, results, last>>

OwnActions == {"ping", "pingtest", "udp", "periodicRouterOutput", "dns", "reset",
               "factoryreset"}

(* What a command that keeps nothing in the interpreter can come to.       *)
Effect(line, api) ==
    LET reply == Process(Head(line), Tail(line), api)
    IN [args |-> Stored(line), outcome |-> Outcome(line, reply),
        calls |-> reply.made \cap (Reports \cup {"diag"})]
Effects == {Effect(line, api) : line \in {l \in Lines : Head(l) \notin OwnActions},
                                api \in ApiOutcomes}

(* The stack scans once at a time.                                         *)
Command ==
    \E effect \in Effects :
      /\ ReadLine(effect.args)
      /\ {"scan"} \cap effect.calls \cap callbacks = {}
      /\ Answer(effect.outcome)
      /\ callbacks' = callbacks \cup (effect.calls \cap Reports)
      /\ network' = network \cup (effect.calls \cap {"diag"})
      /\ UNCHANGED <<udpVars, pingVars, routerVars, mResolvingInProgress>>

----------------------------------------------------------------------------
(* One timer sends the requests of ping and of pingtest.  A request that   *)
(* cannot be sent is not counted and is tried again an interval later.     *)
HandlePingTimerCounts(count, done, sends) ==           \* Slip: counts what it could not send
    LET rest == (count + CountModulus - 1) % CountModulus
    IN /\ mCount' = rest
       /\ mPingTimer' = (rest # 0)
       /\ pinged' = IF sends THEN done + 1 ELSE done
       /\ network' = IF sends THEN network \cup {"echo"} ELSE network
HandlePingTimerGoesOn(count, done, sends) ==           \* Slip: starts the timer anyway
    LET rest == IF sends THEN (count + CountModulus - 1) % CountModulus ELSE count
    IN /\ mCount' = rest
       /\ mPingTimer' = TRUE
       /\ pinged' = IF sends /\ done < asked THEN done + 1 ELSE done
       /\ network' = IF sends THEN network \cup {"echo"} ELSE network
HandlePingTimer(count, done, sends) ==
    LET rest == IF sends THEN (count + CountModulus - 1) % CountModulus ELSE count
    IN /\ mCount' = rest
       /\ mPingTimer' = (rest # 0)
       /\ pinged' = IF sends THEN done + 1 ELSE done
       /\ network' = IF sends THEN network \cup {"echo"} ELSE network

PingTimer(sends) ==
    /\ ~fault /\ mPingTimer
    /\ HandlePingTimer(mCount, pinged, sends)
    /\ UNCHANGED <<inputVars, udpVars, routerVars, asked, mResolvingInProgress,
                   callbacks, fault, results, last>>

(* ping address [size [count [interval]]]; a count already parsed stays    *)
(* when a later word is refused.                                           *)
Ping(line, default, sends) ==
    LET args   == Tail(line)
        parsed == {i \in 2 .. Len(args) : AllLong(args, 2, i)}
        count  == IF 3 \in parsed THEN Long[args[3]] % CountModulus ELSE default
        starts == /\ args # <<>> /\ IsAddress(args[1])
                  /\ ~mPingTimer
        stops  == args # <<>> /\ args[1] = "stop"
        valid  == Len(args) <= 4 /\ AllLong(args, 2, Len(args))
    IN \/ /\ starts /\ valid
          /\ HandlePingTimer(count, 0, sends)
          /\ asked' = count
          /\ UNCHANGED <<results, last>>
       \/ /\ starts /\ ~valid
          /\ mCount' = count
          /\ Answer(Outcome(line, Refused))
          /\ UNCHANGED <<mPingTimer, asked, pinged, network>>
       \/ /\ ~starts /\ ~stops
          /\ Answer(Outcome(line, Refused))
          /\ UNCHANGED <<pingVars, network>>
       \/ /\ stops
          /\ Answer(Outcome(line, Verify(mPingTimer, Made("ping"))))
          /\ mPingTimer' = FALSE
          /\ UNCHANGED <<mCount, asked, pinged, network>>

ProcessPing(line, sends) ==
    /\ Head(line) = "ping" /\ ReadLine(Stored(line))
    /\ Ping(line, 1 % CountModulus, sends)
    /\ UNCHANGED <<udpVars, routerVars, mResolvingInProgress, callbacks>>
pingTest(line, sends) ==
    /\ Head(line) = "pingtest" /\ ReadLine(Stored(line))
    /\ Ping(line, 5 % CountModulus, sends)
    /\ UNCHANGED <<udpVars, routerVars, mResolvingInProgress, callbacks>>

(* Replies and diagnostic answers are printed through mServer.             *)
HandleIcmpReceive ==
    /\ ~fault /\ "echo" \in network
    /\ fault' = ~mServer
    /\ network' \in {network, network \ {"echo"}}
    /\ UNCHANGED <<inputVars, udpVars, pingVars, routerVars, mResolvingInProgress,
                   callbacks, results, last>>
HandleDiagnosticGetResponse ==
    /\ ~fault /\ "diag" \in network
    /\ fault' = ~mServer
    /\ network' = network \ {"diag"}
    /\ UNCHANGED <<inputVars, udpVars, pingVars, routerVars, mResolvingInProgress,
                   callbacks, results, last>>

----------------------------------------------------------------------------
(* udp send address port size [count [delay]].  The line is sent by the    *)
(* command itself, then once more by every run of the timer's handler, the *)
(* first of which the command calls.                                       *)
Count(word) == IF ParseLong(word) THEN Long[word] ELSE 0

HandleUDPTimer(args, counter, already, running) ==
    /\ UDPLoopCounter' = counter + 1
    /\ sent' = IF args = <<>> THEN already ELSE already + 1
    /\ udpTimer' = (running \/ (Len(args) >= 5 /\ Count(args[5]) >= counter + 1))

ProcessUdp(line, api) ==
    /\ Head(line) = "udp" /\ ReadLine(Stored(line))
    /\ HandleUDPTimer(Stored(line), 0, IF Stored(line) = <<>> THEN 0 ELSE 1, udpTimer)
    /\ Answer(Outcome(line, Call(api, "udp")))
    /\ UNCHANGED <<pingVars, routerVars, mResolvingInProgress, callbacks, network>>

(* Overwritten arguments read as those of any other line.                  *)
UdpTimer ==
    /\ ~fault /\ udpTimer
    /\ \E args \in IF torn THEN StoredLines ELSE {currentArgv} :
         HandleUDPTimer(args, UDPLoopCounter, sent, FALSE)
    /\ UNCHANGED <<inputVars, pingVars, routerVars, mResolvingInProgress, callbacks,
                   network, fault, results, last>>

----------------------------------------------------------------------------
(* "stop" is answered at once, and once more when the timer next fires.    *)
routerPeriodicTest(line) ==
    LET stop == Len(line) > 1 /\ line[2] = "stop"
    IN /\ Head(line) = "periodicRouterOutput" /\ ReadLine(Stored(line))
       /\ stopRouterOutput' = stop
       /\ routerOPTimer' = (routerOPTimer \/ ~stop)
       /\ Answer(Outcome(line, IF stop THEN Made("output") ELSE Silent({"output"})))
       /\ UNCHANGED <<udpVars, pingVars, mResolvingInProgress, callbacks, network>>

HandleRouterTimerSlip ==                               \* Slip: starts the timer anyway
    /\ ~fault /\ routerOPTimer
    /\ results' = IF stopRouterOutput THEN results + 1 ELSE results
    /\ UNCHANGED <<inputVars, udpVars, pingVars, routerVars,
                   mResolvingInProgress, callbacks, network, fault, last>>
HandleRouterTimer ==
    /\ ~fault /\ routerOPTimer
    /\ routerOPTimer' = ~stopRouterOutput
    /\ results' = IF stopRouterOutput THEN results + 1 ELSE results
    /\ UNCHANGED <<inputVars, udpVars, pingVars, stopRouterOutput,
                   mResolvingInProgress, callbacks, network, fault, last>>

----------------------------------------------------------------------------
(* dns resolve name [server [port]]: one query at a time.  The DNS client  *)
(* calls back once, with the address or with an error.                     *)
ProcessDns(line, api) ==
    LET args == Tail(line)
    IN /\ Head(line) = "dns" /\ ReadLine(Stored(line))
       /\ IF /\ Len(args) > 1 /\ args[1] = "resolve"
             /\ ~mResolvingInProgress
             /\ Len(args) > 2 => IsAddress(args[3])
             /\ Len(args) > 3 => ParseLong(args[4])
             /\ Accepted(api)
          THEN /\ mResolvingInProgress' = TRUE
               /\ callbacks' = callbacks \cup {"dns"}
               /\ Answer(Outcome(line, Silent({"dns"})))
          ELSE /\ Answer(Outcome(line, Refused))
               /\ UNCHANGED <<mResolvingInProgress, callbacks>>
       /\ UNCHANGED <<udpVars, pingVars, routerVars, network>>

HandleDnsResponseSlip(ok) ==                           \* Slip: reset on success only
    /\ ~fault /\ "dns" \in callbacks
    /\ callbacks' = callbacks \ {"dns"}
    /\ results' = IF ok THEN results ELSE results + 1
    /\ mResolvingInProgress' = ~ok
    /\ UNCHANGED <<inputVars, udpVars, pingVars, routerVars, network, fault, last>>
HandleDnsResponse(ok) ==
    /\ ~fault /\ "dns" \in callbacks
    /\ callbacks' = callbacks \ {"dns"}
    /\ results' = IF ok THEN results ELSE results + 1
    /\ mResolvingInProgress' = FALSE
    /\ UNCHANGED <<inputVars, udpVars, pingVars, routerVars, network, fault, last>>

(* A network found, or the end of the scan.                                *)
HandleActiveScanResult(end) ==
    /\ ~fault /\ "scan" \in callbacks
    /\ callbacks' = IF end THEN callbacks \ {"scan"} ELSE callbacks
    /\ results' = IF end THEN results + 1 ELSE results
    /\ UNCHANGED <<inputVars, udpVars, pingVars, routerVars, mResolvingInProgress,
                   network, fault, last>>

(* The handlers that only print.                                           *)
Prints(report) ==
    /\ ~fault /\ report \in callbacks
    /\ fault' = ~mServer
    /\ UNCHANGED <<inputVars, udpVars, pingVars, routerVars, mResolvingInProgress,
                   network, results, last>>
HandleEnergyReport    == Prints("energy") /\ UNCHANGED callbacks
HandlePanIdConflict   == Prints("conflict") /\ UNCHANGED callbacks
HandleLinkPcapReceive == Prints("pcap") /\ UNCHANGED callbacks
HandleJoinerCallback  == Prints("join") /\ callbacks' = callbacks \ {"join"}

(* reset and factoryreset do not come back.                                *)
ProcessReset == /\ ~fault /\ lines < MaxLines /\ <<"reset">> \in Lines
                /\ Restart
ProcessFactoryReset == /\ ~fault /\ lines < MaxLines /\ <<"factoryreset">> \in Lines
                       /\ Restart

----------------------------------------------------------------------------
ProcessLine ==
    \/ Command
    \/ \E line \in Lines :
         \/ \E api \in ApiOutcomes : ProcessUdp(line, api) \/ ProcessDns(line, api)
         \/ \E sends \in BOOLEAN : ProcessPing(line, sends) \/ pingTest(line, sends)
         \/ routerPeriodicTest(line)

Event ==
    \/ Type \/ UdpTimer \/ HandleRouterTimer
    \/ \E sends \in BOOLEAN : PingTimer(sends)
    \/ HandleIcmpReceive \/ HandleDiagnosticGetResponse
    \/ \E ok \in BOOLEAN : HandleDnsResponse(ok)
    \/ \E end \in BOOLEAN : HandleActiveScanResult(end)
    \/ HandleEnergyReport \/ HandlePanIdConflict
    \/ HandleLinkPcapReceive \/ HandleJoinerCallback

PowerCycle == fault /\ Restart

Next == ProcessLine \/ TooManyArgs \/ ProcessReset \/ ProcessFactoryReset \/ Event \/ PowerCycle

Spec == Init /\ [][Next]_vars

(* Timers fire, and message buffers come free again.                       *)
FairSpec == Spec /\ WF_vars(UdpTimer) /\ SF_vars(PingTimer(TRUE))

----------------------------------------------------------------------------
(* No result line comes from nowhere: the results printed since the start, *)
(* those of timers and callbacks included, never outnumber the lines read. *)
ResultsFollowLines == results <= lines

(* The NULL server is only met by an answer that a restart left without a  *)
(* line before it.                                                         *)
FaultBeforeFirstLine == fault => lines = 0

(* While a ping runs, the requests sent and those left make up the count   *)
(* that was asked for, however often a request could not be sent.          *)
PingCount == mPingTimer => /\ mCount > 0
                           /\ (pinged + mCount) % CountModulus = asked
CliConsistent == CliTypeOK /\ PingCount

(* A query is in progress exactly while the DNS client owes its callback.  *)
ResolvingIsPending == mResolvingInProgress <=> "dns" \in callbacks

(* A line answered Error at once changed nothing, unless its change takes  *)
(* two calls: the first is not undone when the second fails.               *)
ErrorChangesNothing ==
    last.result = "Error" /\ last.changed => last.asked = "two changes"

(* A line that asks for a change and is answered Done at once changed      *)
(* something, unless its command skips a word it does not know, or drops   *)
(* the error of its call: those may answer Done and have done nothing.     *)
DoneMeansDone ==
    last.result = "Done" /\ last.asked \in {"change", "two changes"} => last.changed

(* A line that only asks changed nothing.                                  *)
QueryChangesNothing == last.asked = "query" => ~last.changed

(* Together: what a line answers at once is what it did, for every command *)
(* that looks at all it is given and told.                                 *)
AnswersTrue == ErrorChangesNothing /\ DoneMeansDone /\ QueryChangesNothing

(* A UDP line without a count is sent once: not kept (README,              *)
(* "Observations").                                                        *)
NoCountSendsOne ==
    Len(currentArgv) \in 1 .. 4 /\ ~torn => sent <= 1

(* Every ping ends, though requests are refused now and then, and so does  *)
(* every repetition of a UDP line, whatever the line has become.           *)
PingEnds == mPingTimer ~> ~mPingTimer
RepetitionEnds == udpTimer ~> ~udpTimer
TimersEnd == PingEnds /\ RepetitionEnds
=============================================================================
