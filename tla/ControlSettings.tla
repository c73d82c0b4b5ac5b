-------------------------- MODULE ControlSettings ---------------------------
(***************************************************************************)
(* Settings the control plane writes to state.db and swaps into memory: the*)
(* account header rules with the matcher built from them, and the runtime  *)
(* configuration.  A patch of the configuration holds configMu; a change of*)
(* a rule holds nothing: it writes its row, reads all rows and swaps in the*)
(* matcher, and others may do the same in between.                         *)
(*                                                                         *)
(* A rule's prefix is a path of segments, the host first; the empty path is*)
(* the fallback rule "*".  Rows written before prefixes were normalised may*)
(* spell one path in several ways.  The configuration is two fields, the   *)
(* URL for latency tests and the authorities, of which that URL's domain is*)
(* always one.                                                             *)
(***************************************************************************)
EXTENDS Naturals, FiniteSets, Sequences, SequencesExt, FiniteSetsExt, ConcurrentMap

CONSTANTS
    Segments,          \* of paths; the first one is a host
    RulePaths,         \* paths, <<>> among them
    Spellings,         \* numbers; spelling 0 is the normal one
    RuleHeaders,       \* lists of header names, as values
    RuleRequests,      \* paths of requests
    Domains,           \* domains of latency tests
    DefaultDomain,
    SettingHandlers,   \* goroutines of the API
    MaxSettingOps      \* bound: operations begun, also the clock of updated_at

ASSUME RulesAssumption == RulePaths \cup RuleRequests \subseteq Seq(Segments)

Fallback == <<>>
RulePrefix == RulePaths \X Spellings
RuleRow == [headers : RuleHeaders, updated : 0..MaxSettingOps]
RuntimeConfig == [domain : Domains, authorities : SUBSET Domains]
\* A patch holds the fields it gives, at least one.
ConfigPatch == [domain : Domains] \cup [authorities : SUBSET Domains] \cup RuntimeConfig

VARIABLES
    ruleRows,          \* table account_header_rules: prefix -> row
    matcher,           \* AccountMatcherRuntime: path -> rule
    configRow,         \* table system_config: [version, config]
    runtimeCfg,        \* the configuration in use
    configVersion,     \* 0 until the first patch after a start
    configMu,          \* handlers that hold it
    patched,           \* history: the saved patches, each applied to what those before it made
    settingOps,        \* handler -> where it is
    clock

settingVars ==
    <<ruleRows, matcher, configRow, runtimeCfg, configVersion, configMu, patched, settingOps, clock>>
ruleVars == <<ruleRows, matcher>>
configVars == <<configRow, runtimeCfg, configVersion, patched>>
IdleOp == [at |-> "idle"]

-----------------------------------------------------------------------------
(* The matcher *)

\* shouldReplaceRule: the newer row, then the smaller spelling.
ShouldReplaceRule(rows, next, current) ==
    \/ rows[next].updated > rows[current].updated
    \/ rows[next].updated = rows[current].updated /\ next[2] < current[2]

\* BuildAccountMatcher: of the rows that mean one path one wins.
BuildAccountMatcher(rows) ==
    [path \in {p[1] : p \in DOMAIN rows} |->
       LET same == {p \in DOMAIN rows : p[1] = path}
           winner == CHOOSE p \in same : \A q \in same \ {p} : ShouldReplaceRule(rows, p, q)
       IN  rows[winner].headers]

\* A node of the trie is a prefix of some rule's path.
Node(m, path) == \E p \in DOMAIN m : p # Fallback /\ IsPrefix(path, p)

\* Mutant: the walk goes on to the end of the trie but keeps the first rule.
WalkKeepsFirst(m, segments) ==
    LET walk[i \in 0..Len(segments)] ==
          IF i = 0 THEN [found |-> Fallback, on |-> TRUE]
          ELSE LET path == SubSeq(segments, 1, i)
                   on == walk[i - 1].on /\ Node(m, path)
               IN  [on |-> on, found |-> IF on /\ path \in DOMAIN m /\ walk[i - 1].found = Fallback
                                         THEN path ELSE walk[i - 1].found]
    IN  walk[Len(segments)].found

\* MatchWithPrefix: segment by segment down the trie, the last rule on the way.
Walk(m, segments) ==
    LET walk[i \in 0..Len(segments)] ==
          IF i = 0 THEN [found |-> Fallback, on |-> TRUE]
          ELSE LET path == SubSeq(segments, 1, i)
                   on == walk[i - 1].on /\ Node(m, path)
               IN  [on |-> on, found |-> IF on /\ path \in DOMAIN m THEN path ELSE walk[i - 1].found]
    IN  walk[Len(segments)].found

-----------------------------------------------------------------------------
(* Rules *)

\* ensureDefaultAccountHeaderRule, loadRuntimeConfig; rows of older versions may be there.
SettingsInit ==
    /\ \E old \in SUBSET {p \in RulePrefix : p[1] # Fallback /\ p[2] # 0}, h \in RuleHeaders :
         ruleRows = [p \in old \cup {<<Fallback, 0>>} |-> [headers |-> h, updated |-> 0]]
    /\ matcher = BuildAccountMatcher(ruleRows)
    /\ configRow = [version |-> 0, config |-> [domain |-> DefaultDomain, authorities |-> {DefaultDomain}]]
    /\ runtimeCfg = configRow.config
    /\ configVersion = 0
    /\ configMu = {}
    /\ patched = configRow.config
    /\ settingOps = [h \in SettingHandlers |-> IdleOp]
    /\ clock = 0

SettingBegins(h) == settingOps[h] = IdleOp /\ clock < MaxSettingOps /\ clock' = clock + 1
Does(h, step) == settingOps' = [settingOps EXCEPT ![h] = step]

\* UpsertAccountHeaderRule: the row of the normalised prefix.
UpsertRule(h, path, headers) ==
    /\ SettingBegins(h)
    /\ ruleRows' = MapPut(ruleRows, <<path, 0>>, [headers |-> headers, updated |-> clock'])
    /\ Does(h, [at |-> "list"])
    /\ UNCHANGED <<matcher, configVars, configMu>>

DeleteRule(h, path) ==
    /\ SettingBegins(h)
    /\ path # Fallback
    /\ <<path, 0>> \in DOMAIN ruleRows
    /\ ruleRows' = MapDelete(ruleRows, <<path, 0>>)
    /\ Does(h, [at |-> "list"])
    /\ UNCHANGED <<matcher, configVars, configMu>>

\* reloadAccountMatcher: all rows; a failed read leaves the old matcher.
ListRules(h) ==
    /\ settingOps[h].at = "list"
    /\ Does(h, [at |-> "swap", rows |-> ruleRows]) \/ Does(h, IdleOp)
    /\ UNCHANGED <<ruleVars, configVars, configMu, clock>>

ReplaceRules(h) ==
    /\ settingOps[h].at = "swap"
    /\ matcher' = BuildAccountMatcher(settingOps[h].rows)
    /\ Does(h, IdleOp)
    /\ UNCHANGED <<ruleRows, configVars, configMu, clock>>

-----------------------------------------------------------------------------
(* Runtime configuration *)

\* parseRuntimeConfigPatch decodes the patch into a copy of a configuration,
\* whose other fields stay.
WithFields(c, patch) ==
    [domain |-> IF "domain" \in DOMAIN patch THEN patch.domain ELSE c.domain,
     authorities |-> IF "authorities" \in DOMAIN patch THEN patch.authorities ELSE c.authorities]

\* validateRuntimeConfig adds the tested domain to the authorities.
Completed(c) == [c EXCEPT !.authorities = @ \cup {c.domain}]

\* Mutant: the lock is not taken.
LockFree(h) ==
    /\ SettingBegins(h)
    /\ Does(h, [at |-> "patch"])
    /\ UNCHANGED <<ruleVars, configVars, configMu>>

LockConfig(h) ==
    /\ SettingBegins(h)
    /\ configMu = {} /\ configMu' = {h}
    /\ Does(h, [at |-> "patch"])
    /\ UNCHANGED <<ruleVars, configVars>>

\* The patch on a copy of what is in use.
PatchConfig(h, patch) ==
    /\ settingOps[h].at = "patch"
    /\ configVersion' = IF configVersion = 0 THEN configRow.version ELSE configVersion
    /\ Does(h, [at |-> "save", patch |-> patch, config |-> Completed(WithFields(runtimeCfg, patch)),
                version |-> configVersion' + 1])
    /\ UNCHANGED <<ruleVars, configRow, runtimeCfg, configMu, patched, clock>>

\* A patch that cannot be parsed or is not valid, or a failed GetSystemConfig.
RefusePatch(h) ==
    /\ settingOps[h].at = "patch"
    /\ configMu' = configMu \ {h}
    /\ Does(h, IdleOp)
    /\ UNCHANGED <<ruleVars, configVars, clock>>

\* SaveSystemConfig may fail: the patch ends without effect.
SaveConfig(h) ==
    /\ settingOps[h].at = "save"
    /\ \/ /\ configRow' = [version |-> settingOps[h].version, config |-> settingOps[h].config]
          /\ patched' = Completed(WithFields(patched, settingOps[h].patch))
          /\ Does(h, [settingOps[h] EXCEPT !.at = "store"])
          /\ UNCHANGED configMu
       \/ Does(h, IdleOp) /\ configMu' = configMu \ {h} /\ UNCHANGED <<configRow, patched>>
    /\ UNCHANGED <<ruleVars, runtimeCfg, configVersion, clock>>

StoreConfig(h) ==
    /\ settingOps[h].at = "store"
    /\ runtimeCfg' = settingOps[h].config
    /\ configVersion' = settingOps[h].version
    /\ configMu' = configMu \ {h}
    /\ Does(h, IdleOp)
    /\ UNCHANGED <<ruleVars, configRow, patched, clock>>

\* A crash anywhere, and a start from the rows.
RestartSettings ==
    /\ matcher' = BuildAccountMatcher(ruleRows)
    /\ runtimeCfg' = configRow.config
    /\ configVersion' = 0
    /\ configMu' = {}
    /\ settingOps' = [h \in SettingHandlers |-> IdleOp]
    /\ UNCHANGED <<ruleRows, configRow, patched, clock>>

SettingsNext ==
    \/ \E h \in SettingHandlers :
         \/ \E path \in RulePaths : DeleteRule(h, path) \/ \E x \in RuleHeaders : UpsertRule(h, path, x)
         \/ ListRules(h) \/ ReplaceRules(h)
         \/ LockConfig(h) \/ RefusePatch(h) \/ SaveConfig(h) \/ StoreConfig(h)
         \/ \E patch \in ConfigPatch : PatchConfig(h, patch)
    \/ RestartSettings

SettingsSpec == SettingsInit /\ [][SettingsNext]_settingVars

-----------------------------------------------------------------------------
(* Properties *)

SettingsTypeOK ==
    /\ IsMap(ruleRows, RulePrefix, RuleRow)
    /\ IsMap(matcher, RulePaths, RuleHeaders)
    /\ configRow \in [version : 0..MaxSettingOps, config : RuntimeConfig]
    /\ {runtimeCfg, patched} \subseteq RuntimeConfig
    /\ configVersion \in 0..MaxSettingOps
    /\ configMu \subseteq SettingHandlers
    /\ \A h \in SettingHandlers : settingOps[h].at \in {"idle", "list", "swap", "patch", "save", "store"}
    /\ clock \in 0..MaxSettingOps

\* A request is matched by the longest rule that is a prefix of it, and by the
\* fallback where there is none, which is there whatever was deleted and in
\* whatever order matchers were swapped in (AccountMatcher.MatchWithPrefix on the
\* trie of BuildAccountMatcher, against the definition of a longest prefix).
MatchesLongestRule ==
    \A q \in RuleRequests :
      LET rules == {p \in DOMAIN matcher : IsPrefix(p, q)}
      IN  rules # {} /\ Walk(matcher, q) = CHOOSE p \in rules : \A r \in rules : Len(r) <= Len(p)

\* No patch loses a field of another: what is stored is what the saved patches make
\* of the configuration one after the other, whatever overlaps, fails or crashes.
\* The configuration in use is the stored one, and its version the stored one, when
\* no patch is between the two; it always holds the tested domain among the
\* authorities (PatchRuntimeConfig: copy, patch, validate, persist, swap).
ConfigFollowsRow ==
    /\ configRow.config = patched
    /\ configMu = {} /\ (\A h \in SettingHandlers : settingOps[h].at # "store") =>
         runtimeCfg = configRow.config /\ configVersion \in {0, configRow.version}
    /\ runtimeCfg.domain \in runtimeCfg.authorities

\* With no change under way the matcher is the one of the rows, which does not
\* hold: of two reloads the one that read first may swap last, and a failed read
\* leaves the old matcher.
MatcherFollowsRows ==
    (\A h \in SettingHandlers : settingOps[h] = IdleOp) => matcher = BuildAccountMatcher(ruleRows)
=============================================================================
