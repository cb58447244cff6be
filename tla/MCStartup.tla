----------------------------- MODULE MCStartup -----------------------------
(***************************************************************************)
(* Bounds for Startup: one or two settings in the file and on the command  *)
(* line, against one system; every system against a few command lines.     *)
(***************************************************************************)
EXTENDS Startup, TLC

MCIntOf == ("-1" :> -1) @@ ("0" :> 0) @@ ("1" :> 1) @@ ("2" :> 2) @@ ("3" :> 3) @@ ("4" :> 4)
           @@ ("60" :> 60) @@ ("100" :> 100) @@ ("3600" :> 3600)
MCEmails == {"dba@x.com"}
MCLimits == {"2", ">2"}
MCKeys == {"SYSTEMKEY"}

Arg(f, items) == [flag |-> f, items |-> items, sep |-> ","]
One == <<"VIEW", "COLUMN", "value", "2">>
Two == One \o <<"VIEW", "WHERE", "", ">2">>

\* Right, wrong and unusual arguments for every check.
Args ==
    {Arg("-nr", <<t>>) : t \in {"0", "1", "x"}}
    \cup {Arg("-ng", <<t>>) : t \in {"0", "1"}}
    \cup {Arg("-rm", <<"2">>), Arg("-rm", <<"4">>), Arg("-mr", <<"2">>), Arg("-pt", <<"-1">>)}
    \cup {Arg("-rp", r) : r \in {<<"4", "3", "2", "1">>, <<"0", "1", "2", "3">>, <<"1", "1", "2", "3">>,
                                 <<"1", "2", "3">>, <<"1", "x", "2", "3">>}}
    \cup {Arg(f, <<"true">>) : f \in {"-hm", "-lf", "-so"}}
    \cup {Arg("-hc", <<"false">>), Arg("-hc", <<"1">>)}
    \cup {Arg("-cf", c) : c \in {One, Two, <<"VIEW", "COLUMN", "value", "x">>,
                                 <<"VIEW", "COLUMN", "", "2">>, <<"VIEW">>, <<"">>}}
    \cup {[flag |-> "-cf", items |-> One, sep |-> ";"]}
    \cup {Arg("-ks", k) : k \in {<<"true">>, <<"true", "false">>}}
    \cup {Arg("-if", <<"2", "60">>), Arg("-if", <<"2">>)}
    \cup {Arg("-cpu", c) : c \in {<<"1", "2", "2", "60">>, <<"1", "2", "0", "60">>, <<"0", "0", "2", "60">>,
                                  <<"1", "x", "2", "60">>}}
    \cup {Arg("-en", <<"dba@x.com">>), Arg("-en", <<"dba">>), Arg("-ens", <<"dba">>)}
    \cup {Arg("-cd", <<"2">>), Arg("-k", <<"NOKEY">>), Arg("-zz", <<"1">>), Arg("-h", <<"">>)}
    \cup {Arg("-od", <<"/backup">>), Arg("-odr", <<"60">>)}

Ff == Arg("-ff", <<"sitter.cfg">>)
UpToTwo == {<<>>} \cup {<<a>> : a \in Args} \cup {<<a, b>> : a, b \in Args}
MCTexts == DOMAIN MCIntOf \cup UNION {{a.items[k] : k \in DOMAIN a.items} : a \in Args}
           \cup {"true", "false", "SYSTEMKEY", "/tmp/hanasitter_output", "unsplit", "sitter.cfg"}
MCFiles == UpToTwo
MCLines == UpToTwo \cup {<<Ff>>} \cup {<<Ff, a>> : a \in Args}

----------------------------------------------------------------------------
\* Two tenants and the SystemDB on the workers h1 and h2, with h3 on standby.
T1 == [name |-> "T1", port |-> 30003, sql |-> 30015, hosts |-> {"h1.x"}]
T2 == [name |-> "T2", port |-> 30040, sql |-> 30041, hosts |-> {"h1.x", "h2.x"}]
SystemDB == [name |-> "", port |-> 30001, sql |-> 30013, hosts |-> {"h1.x"}]
AllHosts == {"h1.x", "h2.x", "h3.x"}
MCShortName == ("h1" :> "h1") @@ ("h1.x" :> "h1") @@ ("h2" :> "h2") @@ ("h2.x" :> "h2")
               @@ ("h3.x" :> "h3") @@ ("localhost" :> "localhost") @@ ("h9" :> "h9")
Locks(dbs) == [h \in AllHosts |-> {db.port : db \in {d \in dbs : h \in d.hosts}}]

\* The lines of daemon.ini.
Entry(kind, text, number) == [kind |-> kind, text |-> text, number |-> number]
Blank == Entry("blank", "", 0)
Port == Entry("first", "", 300)
Ids(t) == Entry("second", "", t.port % 100)
Section(t, layout) ==
    <<Entry("name", t.name, 0)>>
    \o (CASE layout = "portFirst" -> <<Port, Ids(t), Blank>>
          [] layout = "idsFirst" -> <<Entry("other", "", 0), Ids(t), Port, Blank>>
          [] layout = "noIds" -> <<Port, Blank>>)
OtherSection == <<Entry("other", "", 0), Port, Entry("second", "", 43), Blank>>

Single ==
    [local |-> "h1.x", key |-> <<[host |-> "localhost", port |-> 30015]>>, sid |-> "HDB",
     info |-> <<>>, nameservers |-> <<30001>>, daemon |-> <<>>,
     landscape |-> <<"h1.x">>,
     locks |-> Locks({SystemDB, T1}),
     databases |-> {[T1 EXCEPT !.name = ""]}]

Mdc(db, order, infoOrder, layout, isolated, local) ==
    [local |-> local, key |-> <<[host |-> "h1", port |-> db.sql], [host |-> "h2", port |-> db.sql]>>, sid |-> "HDB",
     info |-> [k \in {1, 2} |-> [name |-> IF isolated THEN infoOrder[k].name ELSE "HDB",
                                 port |-> infoOrder[k].port]],
     nameservers |-> <<30001>>,
     daemon |-> OtherSection \o Section(order[1], layout) \o OtherSection \o Section(order[2], layout),
     landscape |-> <<"h1.x", "h2.x", "h3.x">>,
     locks |-> Locks({SystemDB, T1, T2}),
     databases |-> {SystemDB, T1, T2}]

Orders == {<<T1, T2>>, <<T2, T1>>}
Mdcs == {Mdc(db, o, i, l, iso, local) :
            db \in {SystemDB, T1, T2}, o \in Orders, i \in Orders,
            l \in {"portFirst", "idsFirst"}, iso \in BOOLEAN, local \in {"h1", "h9"}}
AnMdc == Mdc(T2, <<T1, T2>>, <<T2, T1>>, "portFirst", FALSE, "h2")
Broken ==
    {[AnMdc EXCEPT !.nameservers = <<>>],
     [AnMdc EXCEPT !.key = <<@[1], [host |-> "h2", port |-> 30141]>>],
     [AnMdc EXCEPT !.key = <<@[1], [host |-> "h9", port |-> 30041]>>],
     [AnMdc EXCEPT !.daemon = Section(T1, "noIds")],
     [AnMdc EXCEPT !.info = <<[name |-> "T1", port |-> 30004]>>],
     [AnMdc EXCEPT !.locks = [h \in {"h1.x"} |-> {}]],
     [Single EXCEPT !.key = <<[host |-> "h1.x", port |-> 30013]>>]}
MCSystems == {Single} \cup Mdcs \cup Broken

\* The systems that are not broken are as HANA owes them.
ASSUME SystemsAreCoherent == \A s \in {Single} \cup Mdcs : T!Coherent(s)

----------------------------------------------------------------------------
FewLines == {<<Arg("-nr", <<"1">>)>>, <<Arg("-hm", <<"true">>), Arg("-nr", <<"1">>)>>,
             <<Arg("-hm", <<"true">>), Arg("-ng", <<"1">>)>>}
FfNr == <<Ff, Arg("-nr", <<"1">>)>>
MCInit ==
    /\ \/ file \in {<<>>, <<Arg("-nr", <<"1">>)>>} /\ cli \in UpToTwo /\ system = Single
       \/ file \in UpToTwo /\ cli \in {<<Ff>>, FfNr} /\ system = Single
       \/ file \in {<<a>> : a \in Args} /\ cli \in {<<Ff, a>> : a \in Args} /\ system = Single
       \/ file = <<>> /\ cli \in FewLines /\ system \in MCSystems
       \/ file = <<Arg("-hc", <<"false">>)>> /\ cli = FfNr /\ system \in MCSystems
    /\ Init
MCSpec == MCInit /\ [][Next]_startupVars
=============================================================================
