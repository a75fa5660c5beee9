------------------------------- MODULE MCCli -------------------------------
(* Every command with arguments of each kind its code tells apart.         *)
EXTENDS Cli

With(commands, words) == {<<c>> \o w : c \in commands, w \in words}

QueryLines ==
    With({"help", "autostart", "bufferinfo", "channel", "childmax", "childtimeout",
          "contextreusedelay", "counter", "delaytimermin", "diag", "eidcache", "eui64",
          "extaddr", "extpanid", "ifconfig", "ipaddr", "ipmaddr", "joinerid",
          "joinerport", "leaderdata", "leaderpartitionid", "leaderweight", "macfilter",
          "masterkey", "mode", "netdatashow", "networkidtimeout", "networkname",
          "panid", "parent", "parentpriority", "pollperiod", "prefix", "promiscuous",
          "pskc", "rloc16", "route", "routerdowngradethreshold", "routerrole",
          "routerselectionjitter", "routerupgradethreshold", "singleton", "state",
          "txpower", "version", "scan", "discover"}, {<<>>})
    \cup With({"child", "router"}, {<<"table">>, <<"1">>, <<"junk">>})
    \cup {<<"neighbor", "list">>, <<"neighbor", "junk">>, <<"eui64", "1">>,
          <<"keysequence", "counter">>, <<"keysequence", "guardtime">>,
          <<"ipmaddr", "promiscuous">>, <<"macfilter", "addr">>, <<"macfilter", "rss">>,
          <<"commissioner", "sessionid">>, <<"commissioner", "junk">>, <<"junk">>,
          <<"networkdiagnostic", "get", "addr", "1">>,
          <<"networkdiagnostic", "get", "addr", "junk">>,
          <<"scan", "1">>, <<"scan", "junk">>, <<"discover", "1">>, <<"discover", "junk">>,
          <<"dns", "resolve", "name">>, <<"dns", "resolve", "name", "addr", "1">>,
          <<"dns", "resolve">>, <<"dns", "resolve", "name", "junk">>}

ChangeLines ==
    With({"channel", "childmax", "childtimeout", "contextreusedelay", "delaytimermin",
          "joinerport", "leaderpartitionid", "leaderweight", "networkidtimeout", "panid",
          "parentpriority", "pollperiod", "releaserouterid", "routerdowngradethreshold",
          "routerselectionjitter", "routerupgradethreshold", "txpower"},
         {<<"0">>, <<"1">>, <<"junk">>})
    \cup With({"extaddr", "extpanid", "masterkey", "pskc"}, {<<"hex">>, <<"junk">>})
    \cup With({"autostart"}, {<<"true">>, <<"junk">>})
    \cup With({"ifconfig"}, {<<"up">>, <<"junk">>})
    \cup With({"mode"}, {<<"rsdn">>, <<"junk">>})
    \cup With({"routerrole", "promiscuous"}, {<<"enable">>, <<"disable">>, <<"junk">>})
    \cup With({"state"}, {<<"router">>, <<"junk">>})
    \cup With({"thread"}, {<<>>, <<"start">>, <<"stop">>})
    \cup With({"GPIO"}, {<<>>, <<"ON">>, <<"OFF">>})
    \cup With({"coap", "dataset", "netdataregister"}, {<<>>})
    \cup With({"networkname"}, {<<"name">>})
    \cup With({"ipaddr", "ipmaddr"},
              {<<"add">>, <<"add", "addr">>, <<"del", "addr">>, <<"del", "junk">>})
    \cup With({"ipmaddr"}, {<<"promiscuous", "enable">>, <<"promiscuous", "junk">>})
    \cup With({"keysequence"}, {<<"counter", "1">>, <<"guardtime", "junk">>})
    \cup With({"prefix", "route"},
              {<<"add", "net/64", "high">>, <<"add", "net/64", "junk">>,
               <<"add", "net/junk">>, <<"add", "noslash">>, <<"remove", "net/64">>,
               <<"remove", "noslash">>})
    \cup {<<"route", "add">>}
    \cup With({"service"}, {<<"add", "1", "x", "y">>, <<"add", "1">>, <<"remove", "1", "x">>})
    \cup With({"joiner"}, {<<"start">>, <<"start", "psk">>, <<"stop">>})
    \cup With({"commissioner"},
              {<<"start">>, <<"stop">>, <<"provisioningurl">>,
               <<"joiner", "add", "*", "psk">>, <<"joiner", "add", "hex", "psk", "1">>,
               <<"joiner", "add", "hex">>, <<"joiner", "remove", "hex">>,
               <<"joiner", "junk", "hex">>,
               <<"announce", "1", "1", "1", "addr">>, <<"announce", "1", "1", "1", "junk">>,
               <<"energy", "1", "1", "1", "1", "addr">>, <<"energy", "1">>,
               <<"panid", "1", "1", "addr">>, <<"panid", "1", "junk", "addr">>,
               <<"mgmtget", "locator", "binary", "hex">>, <<"mgmtget", "binary">>,
               <<"mgmtset", "locator", "1", "binary", "hex">>, <<"mgmtset", "locator">>})
    \cup With({"networkdiagnostic"}, {<<"reset", "addr", "1">>, <<"reset", "addr">>})
    \cup With({"macfilter"},
              {<<"addr", "disable">>, <<"addr", "add", "hex">>, <<"addr", "add", "hex", "1">>,
               <<"addr", "add", "hex", "junk">>, <<"addr", "add", "junk">>,
               <<"addr", "remove", "hex">>, <<"addr", "clear">>, <<"addr", "junk">>,
               <<"rss", "add", "*", "9">>, <<"rss", "add-lqi", "hex", "1">>,
               <<"rss", "add-lqi", "hex", "9">>, <<"rss", "remove", "*">>,
               <<"rss", "remove", "junk">>, <<"rss", "clear">>, <<"junk">>})
    \cup {<<"ping", "addr">>, <<"ping", "addr", "1", "0">>, <<"ping", "addr", "1", "2", "1">>,
          <<"ping", "addr", "1", "2", "junk">>, <<"ping", "junk">>, <<"ping", "stop">>,
          <<"ping", "stop", "junk">>,
          <<"pingtest", "addr">>, <<"pingtest", "stop">>,
          <<"udp", "open">>, <<"udp", "send", "addr", "1", "1">>,
          <<"udp", "send", "addr", "1", "1", "2", "1">>,
          <<"periodicRouterOutput">>, <<"periodicRouterOutput", "stop">>,
          <<"reset">>, <<"factoryreset">>}

MCLines == QueryLines \cup ChangeLines
=============================================================================
