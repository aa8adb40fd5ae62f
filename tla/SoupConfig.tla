----------------------------- MODULE SoupConfig -----------------------------
(***************************************************************************)
(* The process-wide settings of soup-misc.c and the configuration loader *)
(* that sets them.  The globals (proxy_context, max_connections,         *)
(* ssl_security_level, the HTTPS_* environment written by putenv,        *)
(* allow_policy, allow_tokens, deny_tokens) are one record, conf, so that *)
(* the loader is a fold over the lines of a file.  A file is a sequence   *)
(* of lines as fgets returns them (without the newline), a line a        *)
(* sequence of one-character strings, or Missing when fopen fails.        *)
(*                                                                         *)
(* Contexts are reference counted by soup-context.c, outside this          *)
(* repository; the model keeps the count and follows its documented       *)
(* contract: soup_context_get returns a context with one more reference, *)
(* owned by the caller, and an unref that reaches zero frees it.  A ref  *)
(* or unref of a freed context sets uaf.                                  *)
(***************************************************************************)
EXTENDS Integers, Sequences, SequencesExt

CONSTANTS
  SysFiles,        \* contents SYSCONFDIR/souprc may have at a load
  UserFiles,       \* contents of the file soup_load_config reads next
  Missing,         \* a file fopen cannot open
  NULL,            \* the NULL pointer (no proxy, the "all" token)
  Unset,           \* an environment variable never put
  Junk,            \* the key file name read beyond the value's NUL
  Contexts,        \* the SoupContexts the URIs of the model name
  ContextOf(_),    \* soup_context_get(value): a context or NULL
  Limits,          \* what the application passes to soup_set_connection_limit
  AppResetsProxy,  \* the application passes soup_get_proxy() back in
  MaxLoads,        \* bound on soup_load_config calls
  MaxAppRefs       \* bound on references the application holds per context

Policies == {"DOMESTIC", "EXPORT", "FRANCE"}

EnvNames == {"HTTPS_CA_FILE", "HTTPS_CA_DIR", "HTTPS_CERT_FILE", "HTTPS_KEY_FILE"}

VARIABLES
  conf,              \* the globals of soup-misc.c (record below)
  app_refs,          \* references the application holds, per context
  soup_initialized,  \* the global of the same name
  loads,             \* soup_load_config calls so far
  last               \* history: the files the latest load read

vars == <<conf, app_refs, soup_initialized, loads, last>>

-----------------------------------------------------------------------------
(* Characters and the string functions of libc and glib the code uses.    *)
LowerAZ == <<"a","b","c","d","e","f","g","h","i","j","k","l","m",
             "n","o","p","q","r","s","t","u","v","w","x","y","z">>
UpperAZ == <<"A","B","C","D","E","F","G","H","I","J","K","L","M",
             "N","O","P","Q","R","S","T","U","V","W","X","Y","Z">>
DigitChars == <<"0","1","2","3","4","5","6","7","8","9">>
WS == {" ", "\t"}

toupper(c) ==
  IF \E i \in 1..26 : LowerAZ[i] = c
  THEN UpperAZ[CHOOSE i \in 1..26 : LowerAZ[i] = c] ELSE c

(* g_strncasecmp (s, t, strlen (t)) == 0 and g_strcasecmp (s, t) == 0.   *)
StartsCI(s, t) ==
  Len(t) <= Len(s) /\ \A i \in 1..Len(t) : toupper(s[i]) = toupper(t[i])
EqualCI(s, t) == Len(s) = Len(t) /\ StartsCI(s, t)

RECURSIVE g_strchug(_), g_strchomp(_)
g_strchug(s) == IF s # <<>> /\ s[1] \in WS THEN g_strchug(Tail(s)) ELSE s
g_strchomp(s) == IF s # <<>> /\ Last(s) \in WS THEN g_strchomp(Front(s)) ELSE s
g_strstrip(s) == g_strchomp(g_strchug(s))

Find(s, c) == SelectInSeq(s, LAMBDA x : x = c)
strcspn(s, set) ==
  LET i == SelectInSeq(s, LAMBDA x : x \in set) IN IF i = 0 THEN Len(s) ELSE i - 1
strspn(s, set) ==
  LET i == SelectInSeq(s, LAMBDA x : x \notin set) IN IF i = 0 THEN Len(s) ELSE i - 1

(* g_strsplit (s, sep, 0): every occurrence splits, empty pieces kept.    *)
RECURSIVE SplitAll(_, _)
SplitAll(s, sep) ==
  IF Find(s, sep) = 0 THEN <<s>>
  ELSE <<SubSeq(s, 1, Find(s, sep) - 1)>>
         \o SplitAll(SubSeq(s, Find(s, sep) + 1, Len(s)), sep)

(* g_strsplit (s, "=", 2): at most two pieces, split at the first "=".   *)
SplitEq(s) ==
  IF Find(s, "=") = 0 THEN <<s>>
  ELSE <<SubSeq(s, 1, Find(s, "=") - 1), SubSeq(s, Find(s, "=") + 1, Len(s))>>

RECURSIVE AtoiDigits(_, _)
AtoiDigits(s, acc) ==
  IF s # <<>> /\ \E d \in 0..9 : DigitChars[d + 1] = s[1]
  THEN AtoiDigits(Tail(s), acc * 10 + (CHOOSE d \in 0..9 : DigitChars[d + 1] = s[1]))
  ELSE acc
atoi(s) ==
  CASE g_strchug(s) = <<>>         -> 0
    [] g_strchug(s)[1] = "-"       -> -AtoiDigits(Tail(g_strchug(s)), 0)
    [] g_strchug(s)[1] = "+"       -> AtoiDigits(Tail(g_strchug(s)), 0)
    [] OTHER                       -> AtoiDigits(g_strchug(s), 0)

-----------------------------------------------------------------------------
(* Words the code compares against.                                       *)
ALLOW == <<"a","l","l","o","w">>
DENY == <<"d","e","n","y">>
ALL == <<"a","l","l">>
KeyConnectionLimit == <<"c","o","n","n","e","c","t","i","o","n","-","l","i","m","i","t">>
KeyProxyUri == <<"p","r","o","x","y","-","u","r","i">>
KeyProxyUrl == <<"p","r","o","x","y","-","u","r","l">>
KeySecurityPolicy == <<"s","e","c","u","r","i","t","y","-","p","o","l","i","c","y">>
KeySslCaFile == <<"s","s","l","-","c","a","-","f","i","l","e">>
KeySslCaDirectory == <<"s","s","l","-","c","a","-","d","i","r","e","c","t","o","r","y">>
KeySslCertificate == <<"s","s","l","-","c","e","r","t","i","f","i","c","a","t","e">>

soup_config_funcs ==
  << [key |-> KeyConnectionLimit, func |-> "connection_limit"],
     [key |-> KeyProxyUri,        func |-> "proxy_uri"],
     [key |-> KeyProxyUrl,        func |-> "proxy_uri"],
     [key |-> KeySecurityPolicy,  func |-> "security_policy"],
     [key |-> KeySslCaFile,       func |-> "ssl_ca_file"],
     [key |-> KeySslCaDirectory,  func |-> "ssl_ca_directory"],
     [key |-> KeySslCertificate,  func |-> "ssl_certificate"] >>

DefaultConf ==
  [proxy |-> NULL, refs |-> [c \in Contexts |-> 0], uaf |-> FALSE,
   limit |-> 0, level |-> "DOMESTIC", env |-> [n \in EnvNames |-> Unset],
   allow_policy |-> TRUE, allow_tokens |-> <<>>, deny_tokens |-> <<>>]

-----------------------------------------------------------------------------
(* Reference counts (soup_context_ref / soup_context_unref / get).        *)
Ref(st, c) ==
  IF st.refs[c] = 0 THEN [st EXCEPT !.uaf = TRUE] ELSE [st EXCEPT !.refs[c] = @ + 1]
Unref(st, c) ==
  IF st.refs[c] = 0 THEN [st EXCEPT !.uaf = TRUE] ELSE [st EXCEPT !.refs[c] = @ - 1]
ContextGet(st, c) == [st EXCEPT !.refs[c] = @ + 1]

(* Mutant: the new proxy is stored without a reference.                  *)
ProxyToNoRef(st, c) == [st EXCEPT !.proxy = c]

ProxyTo(st, c) ==
  IF c # NULL THEN Ref([st EXCEPT !.proxy = c], c) ELSE [st EXCEPT !.proxy = NULL]

(* soup_set_proxy: unref the old proxy, store, ref the new one.           *)
soup_set_proxy(st, c) ==
  ProxyTo(IF st.proxy # NULL THEN Unref(st, st.proxy) ELSE st, c)

-----------------------------------------------------------------------------
(* The handlers of soup_config_funcs, applied to the value of a line.     *)
soup_config_connection_limit_unclamped(st, v) == [st EXCEPT !.limit = atoi(v)]
soup_config_connection_limit(st, v) ==
  [st EXCEPT !.limit = IF atoi(v) > 0 THEN atoi(v) ELSE 0]

soup_config_proxy_uri(st, v) ==
  IF ContextOf(v) = NULL THEN st
  ELSE soup_set_proxy(ContextGet(st, ContextOf(v)), ContextOf(v))

soup_config_security_policy(st, v) ==
  CASE v = <<>> -> st
    [] toupper(v[1]) = "D" /\ EqualCI(Tail(v), <<"O","M","E","S","T","I","C">>)
         -> [st EXCEPT !.level = "DOMESTIC"]
    [] toupper(v[1]) = "E" /\ EqualCI(Tail(v), <<"X","P","O","R","T">>)
         -> [st EXCEPT !.level = "EXPORT"]
    [] toupper(v[1]) = "F" /\ EqualCI(Tail(v), <<"R","A","N","C","E">>)
         -> [st EXCEPT !.level = "FRANCE"]
    [] OTHER -> st

(* The key file is value + idx, where idx is the certificate's length     *)
(* plus the blanks after the first one: the NUL written over that blank   *)
(* (an empty name) or the last blank.  With no blank at all, the blanks   *)
(* are counted beyond the value's own NUL.                                *)
CertKey(v, idx) ==
  IF idx = Len(v) THEN Junk
  ELSE IF strspn(SubSeq(v, idx + 2, Len(v)), WS) = 0 THEN <<>>
  ELSE SubSeq(v, idx + strspn(SubSeq(v, idx + 2, Len(v)), WS) + 1, Len(v))

soup_config_ssl_certificate(st, v) ==
  IF strcspn(v, WS) = 0 THEN st
  ELSE [st EXCEPT !.env["HTTPS_CERT_FILE"] = SubSeq(v, 1, strcspn(v, WS)),
                  !.env["HTTPS_KEY_FILE"] = CertKey(v, strcspn(v, WS))]

Handler(st, f, v) ==
  CASE f = "connection_limit" -> soup_config_connection_limit(st, v)
    [] f = "proxy_uri"        -> soup_config_proxy_uri(st, v)
    [] f = "security_policy"  -> soup_config_security_policy(st, v)
    [] f = "ssl_ca_file"      -> [st EXCEPT !.env["HTTPS_CA_FILE"] = v]
    [] f = "ssl_ca_directory" -> [st EXCEPT !.env["HTTPS_CA_DIR"] = v]
    [] f = "ssl_certificate"  -> soup_config_ssl_certificate(st, v)

(* The first entry whose key equals the line's key, ignoring case.        *)
Dispatch(st, key, v) ==
  LET i == SelectInSeq(soup_config_funcs, LAMBDA e : EqualCI(key, e.key))
  IN IF i = 0 THEN st ELSE Handler(st, soup_config_funcs[i].func, v)

-----------------------------------------------------------------------------
(* The allow/deny lists.  A list is prepended to; NULL stands for "all".   *)
(* A list is a GSList pointer: the empty list is NULL, and two non-empty  *)
(* lists are different allocations.  "all" sets allow_policy to whether  *)
(* the list's head pointer equals allow_tokens: TRUE on the allow list,   *)
(* and on the deny list only while both lists are still NULL.             *)
SetList(st, isallow, l) ==
  IF isallow THEN [st EXCEPT !.allow_tokens = l] ELSE [st EXCEPT !.deny_tokens = l]
List(st, isallow) == IF isallow THEN st.allow_tokens ELSE st.deny_tokens

RECURSIVE AddTokens(_, _, _)
AddTokens(st, isallow, toks) ==
  CASE toks = <<>> -> st
    [] EqualCI(toks[1], ALL) ->
         [SetList(st, isallow, <<NULL>>) EXCEPT
            !.allow_policy = isallow \/ (st.allow_tokens = <<>> /\ st.deny_tokens = <<>>)]
    [] OTHER ->
         AddTokens(SetList(st, isallow, <<toks[1]>> \o List(st, isallow)),
                   isallow, Tail(toks))

IsAllowDeny(key) ==
  StartsCI(g_strchomp(key), ALLOW) \/ StartsCI(g_strchomp(key), DENY)

soup_config_allow_deny(st, key) ==
  IF Len(SplitAll(g_strchomp(key), " ")) < 2 THEN st
  ELSE AddTokens(st, StartsCI(g_strchomp(key), ALLOW),
                 Tail(SplitAll(g_strchomp(key), " ")))

soup_config_token_allowed(st, key) ==
  LET list == IF st.allow_policy THEN st.deny_tokens ELSE st.allow_tokens
  IN IF \E i \in 1..Len(list) : list[i] = NULL \/ StartsCI(key, list[i])
     THEN ~st.allow_policy ELSE st.allow_policy

soup_config_reset_allow_deny(st) == [st EXCEPT !.allow_tokens = <<>>, !.deny_tokens = <<>>]

-----------------------------------------------------------------------------
(* One pass of the fgets loop of soup_load_config_internal, on the line   *)
(* already stripped (iter) and cut at its first '#'.                       *)
ApplyLine(st, iter, admin) ==
  CASE admin /\ IsAllowDeny(iter) -> soup_config_allow_deny(st, iter)
    [] ~admin /\ ~soup_config_token_allowed(st, iter) -> st
    [] Len(SplitEq(g_strchomp(iter))) < 2 -> st
    [] OTHER -> Dispatch(st, g_strchomp(SplitEq(g_strchomp(iter))[1]),
                         g_strchug(SplitEq(g_strchomp(iter))[2]))

LoadLine(st, raw, admin) ==
  IF g_strstrip(raw) = <<>> \/ g_strstrip(raw)[1] = "#" THEN st
  ELSE ApplyLine(st, IF Find(g_strstrip(raw), "#") = 0 THEN g_strstrip(raw)
                     ELSE SubSeq(g_strstrip(raw), 1, Find(g_strstrip(raw), "#") - 1),
                 admin)

soup_load_config_internal(st, file, admin) ==
  IF file = Missing THEN st
  ELSE FoldLeft(LAMBDA s, l : LoadLine(s, l, admin),
                IF admin THEN soup_config_reset_allow_deny(st) ELSE st, file)

(* soup_load_config: reset the settings after the first load, then the   *)
(* system file as admin, then the user's file.                            *)
soup_load_config(st, initialized, sys, usr) ==
  soup_load_config_internal(
    soup_load_config_internal(
      IF initialized
      THEN [soup_set_proxy(st, NULL) EXCEPT !.limit = 0, !.level = "DOMESTIC"]
      ELSE st,
      sys, TRUE),
    usr, FALSE)

-----------------------------------------------------------------------------
(* The application's calls.                                               *)
Init ==
  /\ conf = DefaultConf
  /\ app_refs = [c \in Contexts |-> 0]
  /\ soup_initialized = FALSE
  /\ loads = 0
  /\ last = NULL

(* soup_load_config (config_file): the file is the one named or ~/.souprc. *)
LoadConfig ==
  /\ loads < MaxLoads
  /\ \E sys \in SysFiles, usr \in UserFiles :
       /\ conf' = soup_load_config(conf, soup_initialized, sys, usr)
       /\ last' = [sys |-> sys, usr |-> usr]
  /\ soup_initialized' = TRUE
  /\ loads' = loads + 1
  /\ UNCHANGED app_refs

(* soup_context_get by the application: it owns the new reference.        *)
AppGetContext ==
  \E c \in Contexts :
    /\ app_refs[c] < MaxAppRefs
    /\ conf' = ContextGet(conf, c)
    /\ app_refs' = [app_refs EXCEPT ![c] = @ + 1]
    /\ UNCHANGED <<soup_initialized, loads, last>>

AppUnrefContext ==
  \E c \in Contexts :
    /\ app_refs[c] > 0
    /\ conf' = Unref(conf, c)
    /\ app_refs' = [app_refs EXCEPT ![c] = @ - 1]
    /\ UNCHANGED <<soup_initialized, loads, last>>

(* soup_set_proxy with NULL, a context the application holds, or (when    *)
(* AppResetsProxy) the borrowed pointer soup_get_proxy returned.          *)
AppSetProxy ==
  /\ \E c \in {NULL} \cup {x \in Contexts : app_refs[x] > 0}
               \cup (IF AppResetsProxy THEN {conf.proxy} ELSE {}) :
       conf' = soup_set_proxy(conf, c)
  /\ UNCHANGED <<app_refs, soup_initialized, loads, last>>

AppSetConnectionLimit ==
  /\ \E n \in Limits : conf' = [conf EXCEPT !.limit = n]
  /\ UNCHANGED <<app_refs, soup_initialized, loads, last>>

AppSetSecurityPolicy ==
  /\ \E p \in Policies : conf' = [conf EXCEPT !.level = p]
  /\ UNCHANGED <<app_refs, soup_initialized, loads, last>>

Next ==
  \/ LoadConfig
  \/ AppGetContext
  \/ AppUnrefContext
  \/ AppSetProxy
  \/ AppSetConnectionLimit
  \/ AppSetSecurityPolicy

Spec == Init /\ [][Next]_vars

-----------------------------------------------------------------------------
Settings(st) == <<st.proxy, st.limit, st.level, st.env>>
AdminState(st) == <<st.allow_policy, st.allow_tokens, st.deny_tokens>>

(* What loading the files of the latest load gives in a fresh process.    *)
Fresh(f) == soup_load_config(DefaultConf, FALSE, f.sys, f.usr)

(* What the system file alone gives at this load.                         *)
AfterSystemFile(st, initialized, sys) ==
  soup_load_config(st, initialized, sys, Missing)

Setting(st, f) ==
  CASE f = "connection_limit" -> st.limit
    [] f = "proxy_uri"        -> st.proxy
    [] f = "security_policy"  -> st.level
    [] f = "ssl_ca_file"      -> st.env["HTTPS_CA_FILE"]
    [] f = "ssl_ca_directory" -> st.env["HTTPS_CA_DIR"]
    [] f = "ssl_certificate"  -> <<st.env["HTTPS_CERT_FILE"], st.env["HTTPS_KEY_FILE"]>>

(* The handlers whose key the system file puts on the deny list of an    *)
(* allow-unless-denied policy.                                            *)
DeniedFuncs(st) ==
  IF ~st.allow_policy THEN {}
  ELSE { soup_config_funcs[i].func :
           i \in { i \in 1..Len(soup_config_funcs) :
                    \E j \in 1..Len(st.deny_tokens) :
                       /\ st.deny_tokens[j] # NULL
                       /\ EqualCI(st.deny_tokens[j], soup_config_funcs[i].key) } }

TypeOK ==
  /\ conf.proxy \in Contexts \cup {NULL}
  /\ conf.refs \in [Contexts -> Nat]
  /\ conf.limit \in Nat
  /\ conf.level \in Policies
  /\ conf.allow_policy \in BOOLEAN
  /\ app_refs \in [Contexts -> 0..MaxAppRefs]
  /\ loads \in 0..MaxLoads

(* Every reference to a context is owned: the application's, plus one    *)
(* for proxy_context; and no context is referenced after it was freed.    *)
(* Broken by soup_set_proxy when it is handed the context it holds.       *)
ProxyRefsSound ==
  /\ ~conf.uaf
  /\ \A c \in Contexts :
       conf.refs[c] = app_refs[c] + (IF conf.proxy = c THEN 1 ELSE 0)

(* No context is freed while it is still in use: through loads that set   *)
(* and reset the proxy from proxy-uri lines, and the application setting  *)
(* the proxy to contexts it holds and dropping them, every context keeps  *)
(* at least the application's references plus one for proxy_context, and *)
(* none is referenced after it was freed.  (Too many references, the      *)
(* proxy-uri handler's leak, is ProxyRefsSound's business.)                *)
ProxyRefsCovered ==
  /\ ~conf.uaf
  /\ \A c \in Contexts :
       conf.refs[c] >= app_refs[c] + (IF conf.proxy = c THEN 1 ELSE 0)

(* soup_load_config's comment: each call resets and rereads the settings *)
(* "from scratch".  After a reload, the settings (proxy, limit, policy,   *)
(* HTTPS_* environment) and the allow/deny state are the ones a fresh     *)
(* process gets from the same files.                                      *)
ReloadFromScratch ==
  [][loads > 0 /\ loads' = loads + 1 =>
        /\ Settings(conf') = Settings(Fresh(last'))
        /\ AdminState(conf') = AdminState(Fresh(last'))]_vars

(* A setting whose key the system file denies keeps the value the system *)
(* file leaves it with: the user's file cannot change it.                 *)
DeniedSettingKept ==
  [][loads' # loads =>
       LET a == AfterSystemFile(conf, soup_initialized, last'.sys)
       IN \A f \in DeniedFuncs(a) : Setting(conf', f) = Setting(a, f)]_vars

(* The key file handed to the SSL layer is a file name: non-empty, inside *)
(* the value, and without blanks (ssl-certificate = "<cert> <key>").      *)
KeyFileIsName ==
  LET k == conf.env["HTTPS_KEY_FILE"]
  IN k = Unset \/ (k # Junk /\ k # <<>> /\ \A i \in 1..Len(k) : k[i] \notin WS)

====
