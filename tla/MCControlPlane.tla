--------------------------- MODULE MCControlPlane ---------------------------
(* Model-checking instance of the control plane and of what it keeps: the  *)
(* refreshes of subscriptions, the custom endpoints, the platforms, the    *)
(* settings, the recovery of cache.db, the GeoIP database and the identity *)
(* of inbound requests.  They share no variable, so each behaviour runs one*)
(* of them and leaves the others in one initial state.                     *)
EXTENDS SubscriptionRefresh, EndpointRuntime, PlatformAdmin, ControlSettings, CacheRecovery, GeoIP,
        InboundIdentity, TLC

CONSTANTS s1, i1, n1, u2, c2, DefaultHeaders

VARIABLE area

\* The node is in what one configuration yields and not in the other's; the
\* first subscription is reconfigured once, which refreshes it again.
Downloads == [i \in Inputs |-> IF i = i1 THEN {{n1}} ELSE {{}}]
Refreshes == [s \in Subs |-> 1]
Reconfigured == [s \in Subs |-> IF s = s1 THEN 1 ELSE 0]

Offered == {{"management"}, {"proxy", "authInfo", "reverse"}}

\* Rules for everything, for a host and for a path below it.
RulesAt == {<<>>, <<"h">>, <<"h", "x">>}
MatchedPaths == {<<"h">>, <<"h", "x", "y">>, <<"h", "y">>, <<"g">>}

\* Texts are sequences of characters: the empty one, single ones, and accounts
\* of up to two with both delimiters among them.
TokenTexts == {<<>>, <<"t">>}
PasswordTexts == TokenTexts \cup {<<"w">>}
Platforms == {<<>>, <<"p">>}
Accounts == UNION {[1..k -> {"a", ".", ":"}] : k \in 0..2}
OneHeader == {<<>>, <<"h">>}
OneList == {<<>>, <<<<>>, <<"h">>>>}
Policies == {{"management"}, {"proxy", "forward", "socks5", "reverse"},
             {"proxy", "forward", "socks5", "authInfo"}}

controlVars == <<area, vars, endpointVars, adminVars, settingVars, recoveryVars, geoVars, identityVars>>

\* The state of RecoveryInit in which both databases are empty.
EmptyDatabases ==
    /\ stateDB = [subs |-> {}, platforms |-> {}]
    /\ cacheDB = [bindings |-> <<>>, statics |-> {}, dynamics |-> {}, latencies |-> {}, leases |-> <<>>]
    /\ repairTx = cacheDB /\ memory = EmptyPool /\ bootStep = "begin" /\ boots = 1

\* Besides, the second subscription never listed the second node, and a
\* subscription that is not there has no input to tell apart.
ControlInit ==
    /\ area \in {"refresh", "endpoints", "platforms", "settings", "recovery", "geoip", "identity"}
    /\ IF area = "recovery" THEN RecoveryInit ELSE EmptyDatabases
    /\ <<u2, c2>> \notin DOMAIN cacheDB.bindings
    /\ Init
    /\ area # "refresh" => registered = {}
    /\ \A s \in Subs \ registered : input[s] = i1
    /\ SettingsInit
    /\ area # "settings" => matcher = [p \in {Fallback} |-> DefaultHeaders]
    /\ GeoInit
    /\ area # "geoip" => dbFile = "none"
    /\ IdentityInit
    /\ area # "identity" => proxyToken = Empty
    /\ EndpointInit
    /\ AdminInit

\* The second subscription shares the node and is only created and refreshed.
Handled == \A w \in DOMAIN jobs' : jobs'[w].pc \in {"rename", "delete", "cleanup"} => jobs'[w].sub = s1

RefreshStep == /\ area = "refresh" /\ Next /\ Handled
               /\ UNCHANGED <<area, endpointVars, adminVars, settingVars, recoveryVars, geoVars, identityVars>>
EndpointStep == /\ area = "endpoints" /\ EndpointNext
                /\ UNCHANGED <<area, vars, adminVars, settingVars, recoveryVars, geoVars, identityVars>>
AdminStep == /\ area = "platforms" /\ AdminNext
             /\ UNCHANGED <<area, vars, endpointVars, settingVars, recoveryVars, geoVars, identityVars>>
SettingsStep == /\ area = "settings" /\ SettingsNext
                /\ UNCHANGED <<area, vars, endpointVars, adminVars, recoveryVars, geoVars, identityVars>>
RecoveryStep == /\ area = "recovery" /\ RecoveryNext
                /\ UNCHANGED <<area, vars, endpointVars, adminVars, settingVars, geoVars, identityVars>>
GeoStep == /\ area = "geoip" /\ GeoNext
           /\ UNCHANGED <<area, vars, endpointVars, adminVars, settingVars, recoveryVars, identityVars>>
IdentityStep == /\ area = "identity" /\ IdentityNext
                /\ UNCHANGED <<area, vars, endpointVars, adminVars, settingVars, recoveryVars, geoVars>>

ControlNext ==
    \/ RefreshStep \/ EndpointStep \/ AdminStep \/ SettingsStep \/ RecoveryStep \/ GeoStep \/ IdentityStep

ControlSpec == ControlInit /\ [][ControlNext]_controlVars

Symmetry == Permutations(Workers)
=============================================================================
