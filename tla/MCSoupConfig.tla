---------------------------- MODULE MCSoupConfig ----------------------------
(***************************************************************************)
(* Model-checking instance of SoupConfig: a few system and user files     *)
(* built from the real keys, two proxy URIs and their contexts.           *)
(***************************************************************************)
EXTENDS SoupConfig

CONSTANTS c1, c2

Sp == <<" ">>
Eq == <<"=">>

(* "<key>=<value>", "deny <token>", "allow <token>".                       *)
Line(k, v) == k \o Eq \o v
DenyLine(t) == DENY \o Sp \o t
AllowLine(t) == ALLOW \o Sp \o t

UriA == <<"a">>
UriB == <<"b">>
MCContextOf(v) == IF v = UriA THEN c1 ELSE IF v = UriB THEN c2 ELSE NULL

(* System files.                                                          *)
SysEmpty == <<>>
SysDenyProxyUri == << DenyLine(KeyProxyUri) >>
SysDenyLimit == << <<"#">> \o DenyLine(KeyConnectionLimit),
                   DenyLine(KeyConnectionLimit) \o <<" ", "#">> >>
SysOnlyCaFile == << DenyLine(ALL), AllowLine(KeySslCaFile) >>
SysAllowCaDenyAll == << AllowLine(KeySslCaFile), DenyLine(ALL) >>

(* User files.                                                            *)
UserEmpty == <<>>
UserLimitCa == << Line(KeyConnectionLimit, <<"4">>),
                  Line(KeySslCaFile, <<"f">>) >>
UserDirectives == << AllowLine(ALL),
                     Line(KeyConnectionLimit, <<" ", "-", "3">>),
                     Sp \o Line(KeySslCaFile, <<"g">>) \o Sp >>
UserProxyUrl == << Line(KeyProxyUrl, UriA) >>
UserPolicyCert == << Line(KeySecurityPolicy, <<"E","x","p","o","r","t">>),
                     Line(KeySslCertificate, <<"c", " ", "k">>) >>
UserCert == << Line(KeySslCertificate, <<"c", " ", " ", "k">>) >>

(* The files each run lets a load choose from.                            *)
AnySys == {SysEmpty, SysDenyLimit, SysOnlyCaFile, SysAllowCaDenyAll, Missing}
AnyUser == {UserEmpty, UserLimitCa, UserDirectives, UserPolicyCert, UserProxyUrl}
PolicyThenNone == {SysAllowCaDenyAll, SysEmpty}
OnlySysEmpty == {SysEmpty}
CaThenNone == {UserLimitCa, UserEmpty}
OnlyDenyProxyUri == {SysDenyProxyUri}
OnlyProxyUrl == {UserProxyUrl}
OnlyPolicyCert == {UserPolicyCert}
OnlyUserEmpty == {UserEmpty}

====
