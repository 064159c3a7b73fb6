---------------------------- MODULE MCSmallParts ----------------------------
(* Constants for the smaller parts. *)
EXTENDS SmallParts

\* Two addresses and two mUIDs, one too short to be read back as it is written; no
\* file, and a file with the same address twice or with the short mUID on a line an
\* administrator has written.
MCIP == {"10.0.0.1", "10.0.0.2"}
MCMUID == {"m1", "m2"}
MCIPFiles == {<<>>, <<"10.0.0.1", "10.0.0.1">>}
MCMUIDFiles == {<<>>, <<[muid |-> "m2", bare |-> TRUE]>>}
MCVisitor == {[ip |-> "10.0.0.1", muid |-> "m1"], [ip |-> "10.0.0.1", muid |-> "m2"],
              [ip |-> "10.0.0.2", muid |-> "none"]}

\* A name that is printed as another is, and a word for one name and for all.
MCName == {"bob", "b@b", "al"}
MCPrintable == [n \in MCName |-> IF n = "b@b" THEN "bob" ELSE n]
MCWord == {{"bob", "b@b"}, MCName}

\* Two masters, and a time below and above the least one.
MCMaster == 0..1
MCHost == {"one", "two"}
MCHeartbeatTimes == {1, 4}

\* A key in two cases; strings of clients in which a key is there twice.
MCKey == {"name", "NAME", "ip"}
MCLower == [k \in MCKey |-> IF k = "NAME" THEN "name" ELSE k]
MCValue == {"a", "bb", ";"}
MCSize == [x \in MCKey \cup MCValue |-> IF x = "bb" THEN 3 ELSE 2]
Has(k, v) == [key |-> k, value |-> v]
MCReceived == {<<>>, <<Has("name", "a"), Has("ip", "a"), Has("NAME", "bb")>>,
               <<Has("ip", "bb"), Has("ip", "a")>>}
\* One string more than there are places.
MCLocalized == {"a", "b", "c", "d"}

\* Scripts with every callback, with none that may be missing, with some of
\* them, and two without one that must be there.
AllLabels == {Labels[n] : n \in DOMAIN Labels}
RequiredLabels == {Labels[n] : n \in Required}
MCScripts == {AllLabels, RequiredLabels, RequiredLabels \cup {"RemoteCommand", "EntityDeath"},
              AllLabels \ {"main"}, AllLabels \ {"PlayerDamage"}}

\* The library of the game and of a modification.
MCLibrary == {"main", "mod"}

\* Numbers that are not what a signed byte holds, and -1, whose bits say both
\* ways; weapons that are not what a byte holds.
MCWalkValues == {-1, 200}
MCWeapons == {5, 256}

\* Pings of one digit and of three.
MCPings == {5, 999}
MCPingCalls == {<<>>, <<MCPings>>, <<{}>>, <<{5}>>, <<{999}, {}>>, <<{}, {999}>>,
                <<{5}, MCPings>>}

MCSpeeds == {0, 300}

\* A tab, a small and a capital letter, and what starts a colour.
MCChars == {9, 65, 94, 97}

\* What the master says, and what others say in its name.
MCPacket ==
    {[from |-> "other", kind |-> k] : k \in {"oversize", "error", "getinfo"}} \cup
    {[from |-> "other", kind |-> "chandelier", version |-> 8, text |-> "cheat"],
     [from |-> "other", kind |-> "clientversionresponse", version |-> 8],
     [from |-> "master", kind |-> "chandelier", version |-> 6, text |-> ""],
     [from |-> "master", kind |-> "chandelier", version |-> 7, text |-> "welcome"],
     [from |-> "master", kind |-> "clientversionresponse", version |-> 7]}
============================================================================
