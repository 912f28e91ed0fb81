----------------------------- MODULE MCEndToEnd -----------------------------
(* Small instances of EndToEnd for TLC. *)
EXTENDS EndToEnd, TLC

slash == <<"/">>
etc == <<"etc">>
bin == <<"bin">>
a == etc \o slash \o <<"a">>
b == bin \o slash \o <<"b">>
c == etc \o slash \o <<"sub", "/", "c", "sp", "d">>

nginx == <<"nginx">>
Tags == {nginx \o <<":", t>> : t \in {"1.0", "2.0"}}

\* a registry with a port
PortTags == {<<"reg", ":", "5000", "/", "app", ":", t>> : t \in {"v1", "v2"}}

Builds == {1, 2}
TreeOf(i, v) ==
    IF Last(i) \in {"1.0", "v1"}
    THEN (a :> (IF v = 1 THEN "x" ELSE "y")) @@ (b :> "z")
    ELSE (b :> "x") @@ (c :> (IF v = 1 THEN "y" ELSE "z"))
Trees == [bd \in Image \X Builds |-> TreeOf(bd[1], bd[2])]

Odd(name) == (b :> "x") @@ (etc \o slash \o name :> "y")
OddNames ==
    {Odd(n) : n \in {<<"a", "sp", "sp", "c">>, <<"c", "sp">>, <<"sp", "c">>,
                     <<"c", "nl", "d">>, <<"long">>, <<"c", "sp", "d">>}}

Base == [root |-> <<"fs">>, dirs |-> {etc, bin}, meant |-> <<slash \o etc, slash \o bin>>,
         opts |-> nginx \o <<"=", "/", "etc", ",", "/", "bin">>,
         alg |-> "sha256", tags |-> {}, ns |-> <<"default">>,
         monAlg |-> "SHA256", monTags |-> {}, monNs |-> <<"default">>,
         monBucket |-> "integrity", workers |-> 2,
         podName |-> <<"my", "-", "web", "-", "7d4", "-", "x1">>,
         deployment |-> <<"my", "-", "web">>]

Roots == {<<".", "/">>, <<"fs", "/">>, <<".", "/", "fs">>, <<"out", "/", "fs">>}
Options ==
    {nginx \o <<"=", ",", "/", "etc", ",", "/", "bin", ",">>,
     <<"redis", "=", "/", "data", "sp">> \o nginx \o <<"=", "/", "etc", ",", "/", "bin">>,
     nginx \o <<"=", "/", "etc", "sp">> \o nginx \o <<"=", "/", "bin">>,
     nginx \o <<"=", "/", "etc", ",", "/", "bin", "sp", "sp", "redis", "=", "/">>,
     nginx \o <<"=", "/", "etc", "=", "/", "bin">>}
AllOf == nginx \o <<"=", ",">>

Unlike == [Base EXCEPT !.alg = "bee2", !.monAlg = "BEE2", !.tags = {"bee2"}]
OneSetup == {Base}
TwoSetups == {Base, Unlike}

ManySetups ==
    {[Base EXCEPT !.root = r] : r \in Roots}
    \cup {[Base EXCEPT !.opts = o] : o \in Options}
    \cup {[Unlike EXCEPT !.monTags = {"bee2"}]}
    \cup {[Base EXCEPT !.alg = "md5"], [Base EXCEPT !.alg = "MD5", !.monAlg = "md5"]}
    \cup {[Base EXCEPT !.alg = None], [Base EXCEPT !.monAlg = None, !.alg = "md5"]}
    \cup {[Base EXCEPT !.monBucket = k] : k \in {"sums", None}}
    \cup {[Base EXCEPT !.workers = 0]}
    \cup {[Base EXCEPT !.podName = n] :
             n \in {<<"web">>, <<"web", "-", "0">>, <<"web", "-", "7d4", "-", "x1">>}}
    \cup {[Base EXCEPT !.monNs = n] : n \in {<<>>, <<"other">>}}
    \cup {[Base EXCEPT !.dirs = {etc}],
          [Base EXCEPT !.dirs = {slash \o etc \o slash, bin}],
          [Base EXCEPT !.dirs = {etc, etc \o <<"/", "sub">>, bin}],
          [Base EXCEPT !.dirs = {<<>>}, !.meant = <<<<>>>>, !.opts = AllOf],
          [Base EXCEPT !.meant = <<slash \o etc, slash>>, !.dirs = {<<>>},
                       !.opts = nginx \o <<"=", "/", "etc", ",", "/">>]}
    \cup {[Base EXCEPT !.dirs = {d}, !.meant = <<slash \o a>>,
                       !.opts = nginx \o <<"=">> \o slash \o a] : d \in {a, slash \o a}}
=============================================================================
