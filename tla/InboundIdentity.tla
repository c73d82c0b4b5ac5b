--------------------------- MODULE InboundIdentity ---------------------------
(***************************************************************************)
(* How an inbound request becomes the (platform, account) that is routed:  *)
(* the endpoint's mux (cmd/resin/inbound_mux.go) and the V1 credentials of *)
(* the HTTP forward proxy, the SOCKS5 inbound and the reverse proxy        *)
(* (internal/proxy).  A text is a sequence of characters, of which only    *)
(* the delimiters matter.                                                  *)
(***************************************************************************)
EXTENDS Naturals, Sequences, FiniteSets, FiniteSetsExt, Functions

CONSTANTS
    Characters,     \* what texts are made of, the delimiters among it
    Tokens,         \* values of RESIN_PROXY_TOKEN, the empty one included
    Passwords,      \* what clients send in its place
    PlatformTexts,  \* platform names clients use, and the empty one
    AccountTexts,   \* accounts clients use, which may hold delimiters
    HeaderAccounts, \* values of X-Resin-Account
    HeaderValues,   \* values of the headers the behaviour extracts from, in their order
    EndpointPolicies,   \* capability sets of endpoints
    AccountBehaviors       \* ReverseProxyEmptyAccountBehavior of the platform

Empty == << >>
Delimiters == {".", ":"}

\* ValidateProxyTokenForV1 and ValidatePlatformName keep both free of delimiters.
ValidName(text) == Range(text) \cap Delimiters = {}

\* A credential's password is by definition what follows its last colon.
ASSUME IdentityAssumption ==
    /\ Delimiters \subseteq Characters
    /\ Tokens \cup Passwords \cup PlatformTexts \cup AccountTexts \subseteq Seq(Characters)
    /\ \A text \in Tokens \cup PlatformTexts : ValidName(text)
    /\ \A text \in Passwords : ":" \notin Range(text)

VARIABLES
    proxyToken,   \* RESIN_PROXY_TOKEN
    served        \* the last request and what was made of it

identityVars == <<proxyToken, served>>

-----------------------------------------------------------------------------
Identity(platform, account) == [platform |-> platform, account |-> account]
NoIdentity == Identity(Empty, Empty)

Before(text, i) == SubSeq(text, 1, i - 1)
After(text, i) == SubSeq(text, i + 1, Len(text))
Positions(text, chars) == {i \in DOMAIN text : text[i] \in chars}

\* Mutant: split at the last delimiter.
SplitAtMax(identity) ==
    LET cuts == Positions(identity, Delimiters)
    IN  IF cuts = {} THEN Identity(identity, Empty)
        ELSE Identity(Before(identity, Max(cuts)), After(identity, Max(cuts)))

\* parseV1PlatformAccountIdentity
ParseIdentity(identity) ==
    LET cuts == Positions(identity, Delimiters)
    IN  IF cuts = {} THEN Identity(identity, Empty)
        ELSE Identity(Before(identity, Min(cuts)), After(identity, Min(cuts)))

\* parseForwardCredentialV1
ParseForwardCredential(credential) ==
    LET colons == Positions(credential, {":"})
        cut == IF colons = {} THEN Len(credential) + 1 ELSE Max(colons)
    IN  [token |-> After(credential, cut), id |-> ParseIdentity(Before(credential, cut))]

\* Mutant: without a token the whole credential is the identity.
WholeCredential(credential) == ParseIdentity(credential)

\* parseForwardCredentialV1WhenAuthDisabled
ParseWhenAuthDisabled(credential) ==
    LET colons == Positions(credential, {":"})
        dotted == colons # {} /\ Positions(Before(credential, Max(colons)), {"."}) # {}
    IN  IF ~dotted /\ Cardinality(colons) = 1 THEN ParseIdentity(credential)
        ELSE ParseForwardCredential(credential).id

-----------------------------------------------------------------------------
\* The three inbounds.  An answer is the identity routed or the refusal.

Serve(id) == [verdict |-> "served", id |-> id]
Refusal(verdict) == [verdict |-> verdict, id |-> NoIdentity]

\* authenticateV1, hasBasicUserInfo; "none" is a header absent or not Basic.
Forward(caps, r) ==
    LET colons == Positions(r.credential, {":"})
        parsed == ParseForwardCredential(r.credential)
    IN  CASE proxyToken = Empty ->
               IF r.none THEN IF "authInfo" \in caps THEN Refusal("authRequired") ELSE Serve(NoIdentity)
               ELSE IF "authInfo" \in caps /\ (colons = {} \/ Max(colons) = 1) THEN Refusal("authRequired")
               ELSE Serve(ParseWhenAuthDisabled(r.credential))
          [] r.none -> Refusal("authRequired")
          [] ~r.none /\ parsed.token # proxyToken -> Refusal("authFailed")
          [] OTHER -> Serve(parsed.id)

\* requireAuthInfo of ServeConn, negotiateMethod and authenticateUserPass; "none"
\* is a client that only offers NO AUTH.  Where a token is configured the token
\* is asked for and nothing else: an empty user name with it is served.
Socks5(caps, r) ==
    IF r.none
    THEN IF proxyToken # Empty \/ "authInfo" \in caps THEN Refusal("authFailed") ELSE Serve(NoIdentity)
    ELSE IF proxyToken # Empty /\ r.password # proxyToken THEN Refusal("authFailed")
    ELSE IF proxyToken = Empty /\ "authInfo" \in caps /\ (r.user = Empty \/ r.password = Empty) THEN Refusal("authFailed")
    ELSE Serve(ParseIdentity(r.user))

\* extractAccountFromHeaders: the first value that is not empty.
ExtractAccount(values) ==
    LET hits == {i \in DOMAIN values : values[i] # Empty}
    IN  IF hits = {} THEN Empty ELSE values[Min(hits)]

\* shouldRejectReverseProxyAccountExtractionFailure
Rejects(r, found) == found.failed /\ r.reject

\* resolveReverseProxyAccount: X-Resin-Account, then the path, then what the
\* platform's behaviour extracts, from its fixed headers or the rule's.
ReverseAccount(r, account) ==
    CASE r.resinAccount # Empty -> [account |-> r.resinAccount, failed |-> FALSE]
      [] r.resinAccount = Empty /\ account # Empty -> [account |-> account, failed |-> FALSE]
      [] OTHER -> IF r.behavior = "RANDOM" THEN [account |-> Empty, failed |-> FALSE]
                  ELSE [account |-> ExtractAccount(r.values), failed |-> ExtractAccount(r.values) = Empty]

\* shouldRejectReverseProxyByToken, parsePathV1 and the miss action.  The path
\* is well formed if its segments, protocol and host are valid.
ReversePath(r) ==
    LET id == ParseIdentity(r.identity)
        found == ReverseAccount(r, id.account)
    IN  IF proxyToken # Empty /\ r.token # proxyToken THEN Refusal("authFailed")
        ELSE IF ~r.wellFormed THEN Refusal("parseError")
        ELSE IF Rejects(r, found) THEN Refusal("accountRejected")
        ELSE Serve(Identity(id.platform, found.account))

\* newEndpointInboundMux and the demultiplexer's SOCKS5 gate.
Mux(caps, r) ==
    CASE r.kind = "forward" ->
           IF {"proxy", "forward"} \subseteq caps THEN Forward(caps, r) ELSE Refusal("disabled")
      [] r.kind = "socks5" ->
           IF {"proxy", "socks5"} \subseteq caps THEN Socks5(caps, r) ELSE Refusal("disabled")
      [] r.kind = "health" -> Refusal("controlPlane")
      [] r.kind = "control" ->
           IF "management" \in caps THEN Refusal("controlPlane") ELSE Refusal("notFound")
      [] r.kind = "tokenAPI" ->
           IF proxyToken = Empty \/ r.token = proxyToken
           THEN IF "proxy" \in caps THEN Refusal("tokenAction") ELSE Refusal("disabled")
           ELSE Refusal(IF {"proxy", "reverse"} \subseteq caps THEN "authFailed" ELSE "disabled")
      [] r.kind = "reverse" ->
           IF {"proxy", "reverse"} \subseteq caps THEN ReversePath(r) ELSE Refusal("disabled")

-----------------------------------------------------------------------------
\* What clients send for a platform, an account and a password: the formats
\* of the three inbounds' documentation.

Sent == [platform : PlatformTexts, account : AccountTexts, delimiter : Delimiters,
         bare : BOOLEAN, password : Passwords, none : BOOLEAN]

IdentityText(c) == IF c.bare THEN c.platform ELSE c.platform \o <<c.delimiter>> \o c.account

ForwardRequest(c) ==
    [kind |-> "forward", none |-> c.none, credential |-> IdentityText(c) \o <<":">> \o c.password]
Socks5Request(c) ==
    [kind |-> "socks5", none |-> c.none, user |-> IdentityText(c), password |-> c.password]
PathRequest(c, ok, behavior, reject, header, values) ==
    [kind |-> "reverse", wellFormed |-> ok, token |-> c.password, identity |-> IdentityText(c),
     behavior |-> behavior, reject |-> reject, resinAccount |-> header, values |-> values]

Nothing == [caps |-> {}, sent |-> {}, kind |-> "control", answer |-> Refusal("notFound"),
            header |-> Empty, values |-> << >>]

Answer(caps, c, r) ==
    /\ served' = [caps |-> caps, sent |-> c, kind |-> r.kind, answer |-> Mux(caps, r),
                  header |-> IF r.kind = "reverse" THEN r.resinAccount ELSE Empty,
                  values |-> IF r.kind = "reverse" THEN r.values ELSE << >>]
    /\ UNCHANGED proxyToken

ServeForward(caps, c) == Answer(caps, c, ForwardRequest(c))
ServeSocks5(caps, c) == Answer(caps, c, Socks5Request(c))
ServeReverse(caps, c) ==
    \E behavior \in AccountBehaviors, ok, reject \in BOOLEAN, header \in HeaderAccounts, values \in HeaderValues :
        ~c.none /\ Answer(caps, c, PathRequest(c, ok, behavior, reject, header, values))
ServeControl(caps, c, kind) == Answer(caps, c, [kind |-> kind, token |-> c.password])

NextRequest == served # Nothing /\ served' = Nothing /\ UNCHANGED proxyToken

IdentityInit ==
    /\ proxyToken \in Tokens
    /\ served = Nothing

IdentityNext ==
    \/ NextRequest
    \/ served = Nothing /\ \E caps \in EndpointPolicies, c \in Sent :
          \/ ServeForward(caps, c)
          \/ ServeSocks5(caps, c)
          \/ ServeReverse(caps, c)
          \/ \E kind \in {"health", "control", "tokenAPI"} : ServeControl(caps, c, kind)

IdentitySpec == IdentityInit /\ [][IdentityNext]_identityVars

-----------------------------------------------------------------------------
\* The one exception: with no token configured, a forward credential
\* "Platform:password" is read as "Platform:Account".
Ambiguous == proxyToken = Empty /\ served.kind = "forward" /\ served.sent.bare

\* Whatever inbound it takes, a request that is served presented the token,
\* is not anonymous where the endpoint forbids it (and names a user there if
\* no token was asked for), and is routed under the platform and the account
\* its client meant, delimiters inside the account included, also when both
\* are empty; on the reverse proxy X-Resin-Account replaces the account, and
\* an empty one may be extracted from the headers (authenticateV1,
\* authenticateUserPass, parsePathV1).
RoutedAsMeant ==
    served.answer.verdict = "served" =>
        LET c == served.sent
            id == served.answer.id
            anonymous == c.none
            account == IF c.bare THEN Empty ELSE c.account
        IN  /\ proxyToken # Empty => ~anonymous /\ c.password = proxyToken
            /\ "authInfo" \in served.caps /\ served.kind # "reverse" =>
                 ~anonymous /\ (proxyToken = Empty => IdentityText(c) # Empty)
            /\ anonymous => id = NoIdentity
            /\ ~anonymous /\ ~Ambiguous =>
                 /\ id.platform = c.platform
                 /\ id.account \in
                      CASE served.header # Empty -> {served.header}
                        [] served.header = Empty /\ account # Empty -> {account}
                        [] OTHER -> {Empty, ExtractAccount(served.values)}
=============================================================================
