------------------------------ MODULE BanList ------------------------------
(***************************************************************************)
(* The bans of CoDExtended: the linked list banlist, which SV_DirectConnect *)
(* walks with the macro list_each of util.h, and the files ipbans.txt and  *)
(* muidbans.txt, which the commands of sv_commands.c append to or rewrite  *)
(* and X_ReadBannedList of sv_init.c reads back.                           *)
(*                                                                         *)
(* An mUID ban is written as "mUID:reason" and read back whole, cut off at *)
(* 32 characters: what comes back is the mUID only if it is that long, or  *)
(* if the line is bare, as an administrator may have written it.  A line   *)
(* whose atoi() is 0 is skipped.  mUIDs contain no colon.                  *)
(*                                                                         *)
(* Any fopen() can fail, one that reads as well as one that writes: the    *)
(* list is cleared before the files are opened, and a file that cannot be  *)
(* opened adds nothing to it.  The server can also die while an unban      *)
(* rewrites a file, and leave the first lines of what was to be written.   *)
(***************************************************************************)
EXTENDS ClientNumbers, FiniteSets, SequencesExt

CONSTANTS
    IP,             \* IP addresses
    MUID,           \* mUIDs
    Long,           \* mUIDs of 32 characters
    Numeric,        \* mUIDs whose atoi() is not 0
    IPFiles,        \* what ipbans.txt can hold when the server starts
    MUIDFiles,      \* what muidbans.txt can hold when the server starts
    Visitor,        \* who connects: an address, and an mUID or "none"
    MaxLines        \* bound on the lines of each file

ASSUME BanListAssumption ==
    /\ Long \subseteq MUID /\ Numeric \subseteq MUID
    /\ IP \cap MUID = {} /\ "none" \notin IP \cup MUID
    /\ IPFiles \subseteq Seq(IP)
    /\ MUIDFiles \subseteq Seq([muid : MUID, bare : BOOLEAN])
    /\ Visitor \subseteq [ip : IP, muid : MUID \cup {"none"}]
    /\ MaxLines \in Nat
    /\ \A lines \in IPFiles \cup MUIDFiles : Len(lines) <= MaxLines

VARIABLES
    banlist,    \* the linked list
    ipbans,     \* the lines of ipbans.txt
    muidbans,   \* the lines of muidbans.txt
    clients,    \* who is in each slot
    printed     \* what the last command has told the administrator

bvars == <<banlist, ipbans, muidbans, clients, printed>>

NoMUID == "none"
Free == [used |-> FALSE, ip |-> "none", muid |-> NoMUID]

IPBan(ip) == [type |-> "IPBAN", who |-> ip, exact |-> TRUE]
MUIDBan(m, exact) == [type |-> "MUIDBAN", who |-> m, exact |-> exact]
Line(m) == [muid |-> m, bare |-> FALSE]

Prints(what) == printed' = what
PrintsNothing == Prints(<<"none">>)

------------------------------------------------------------------------------
(* The list *)

\* What list_each visits: it takes the data of an element after it has moved
\* on to the next one, so it sees the first twice and never the last, unless
\* that is the first.
Visited(list) == {list[k] : k \in {j \in DOMAIN list : j = 1 \/ j < Len(list)}}

MatchesIP(ban, ip) == ban.type = "IPBAN" /\ ban.who = ip

\* strcmp with an entry: an inexact entry is equal to no mUID.
MatchesMUID(ban, m) == ban.type = "MUIDBAN" /\ ban.who = m /\ ban.exact

RefusedIP(ip) == \E ban \in Visited(banlist) : MatchesIP(ban, ip)
RefusedMUID(m) == \E ban \in Visited(banlist) : MatchesMUID(ban, m)

------------------------------------------------------------------------------
(* The files *)

\* The elements of a sequence that are in a set, in their order.
Kept(s, S) ==
    LET upTo[k \in 0..Len(s)] ==
            IF k = 0 THEN <<>>
            ELSE IF s[k] \in S THEN Append(upTo[k - 1], s[k]) ELSE upTo[k - 1]
    IN  upTo[Len(s)]

ReadIPs(lines) == [k \in DOMAIN lines |-> IPBan(lines[k])]

ReadMUIDs(lines) ==
    LET kept == Kept(lines, [muid : Numeric, bare : BOOLEAN])
    IN  [k \in DOMAIN kept |->
            MUIDBan(kept[k].muid, kept[k].bare \/ kept[k].muid \in Long)]

Files == {"ipbans.txt", "muidbans.txt"}

\* reads are the files that can be opened.
X_ReadBannedList(ips, muids, reads) ==
    ReadIPs(IF "ipbans.txt" \in reads THEN ips ELSE <<>>)
        \o ReadMUIDs(IF "muidbans.txt" \in reads THEN muids ELSE <<>>)

\* The IP bans and the mUID bans of the list, as the unban commands write them.
IPLines(list) ==
    LET bans == Kept(list, {ban \in ToSet(list) : ban.type = "IPBAN"})
    IN  [k \in DOMAIN bans |-> bans[k].who]

MUIDLines(list) ==
    LET bans == Kept(list, {ban \in ToSet(list) : ban.type = "MUIDBAN"})
    IN  [k \in DOMAIN bans |-> Line(bans[k].who)]

------------------------------------------------------------------------------
(* Commands; opens says whether the file they write can be opened, and reads   *)
(* which of the files can be when they are read after that                    *)

\* SV_DropClient on the first slot of those matched.
DropFirst(matched) ==
    clients' = IF matched = {} THEN clients
               ELSE [clients EXCEPT ![Min(matched)] = Free]

InGame(i) == clients[i].used

SV_BanIP_f(ip, opens, reads) ==
    /\ Len(ipbans) < MaxLines
    /\ DropFirst({i \in ClientNum : InGame(i) /\ clients[i].ip = ip})
    /\ ipbans' = IF opens THEN Append(ipbans, ip) ELSE ipbans
    /\ banlist' = X_ReadBannedList(ipbans', muidbans, reads)
    /\ Prints(<<"banned", ip>>)
    /\ UNCHANGED muidbans

SV_BanMUID_f(m, opens, reads) ==
    /\ Len(muidbans) < MaxLines
    /\ DropFirst({i \in ClientNum : InGame(i) /\ clients[i].muid = m})
    /\ muidbans' = IF opens THEN Append(muidbans, Line(m)) ELSE muidbans
    /\ banlist' = X_ReadBannedList(ipbans, muidbans', reads)
    /\ Prints(<<"banned", m>>)
    /\ UNCHANGED ipbans

\* Mutant: nothing is taken out.
WithoutNone(m) == banlist

\* The list with every ban of an IP, or of an mUID, left out.
WithoutIP(ip) == Kept(banlist, {ban \in ToSet(banlist) : ~MatchesIP(ban, ip)})
WithoutMUID(m) == Kept(banlist, {ban \in ToSet(banlist) : ~MatchesMUID(ban, m)})

SV_UnbanIP_f(ip, opens, reads) ==
    /\ ipbans' = IF opens THEN IPLines(WithoutIP(ip)) ELSE ipbans
    /\ banlist' = X_ReadBannedList(ipbans', muidbans, reads)
    /\ Prints(IF opens /\ \E k \in DOMAIN banlist : MatchesIP(banlist[k], ip)
              THEN <<"unbanned", ip>> ELSE <<"none">>)
    /\ UNCHANGED <<muidbans, clients>>

SV_UnbanMUID_f(m, opens, reads) ==
    /\ muidbans' = IF opens THEN MUIDLines(WithoutMUID(m)) ELSE muidbans
    /\ banlist' = X_ReadBannedList(ipbans, muidbans', reads)
    /\ Prints(IF opens /\ \E k \in DOMAIN banlist : MatchesMUID(banlist[k], m)
              THEN <<"unbanned", m>> ELSE <<"none">>)
    /\ UNCHANGED <<ipbans, clients>>

\* The element SV_BanProcess appends for a client.
Added(c, type) == IF type = "IPBAN" THEN IPBan(c.ip) ELSE MUIDBan(c.muid, TRUE)

\* Bans a client by its IP address or its mUID.  Either way it must have an mUID.
SV_BanProcess(i, type, opens) ==
    LET c == clients[i]
        known == RefusedIP(c.ip) \/ RefusedMUID(c.muid)
    IN  IF opens /\ ~known /\ c.muid # NoMUID
        THEN /\ banlist' = Append(banlist, Added(c, type))
             /\ IF type = "IPBAN"
                THEN /\ Len(ipbans) < MaxLines
                     /\ ipbans' = Append(ipbans, c.ip)
                     /\ Prints(<<"banned", c.ip>>)
                     /\ UNCHANGED muidbans
                ELSE /\ Len(muidbans) < MaxLines
                     /\ muidbans' = Append(muidbans, Line(c.muid))
                     /\ Prints(<<"banned", c.muid>>)
                     /\ UNCHANGED ipbans
             /\ clients' = [clients EXCEPT ![i] = Free]
        ELSE PrintsNothing /\ UNCHANGED <<banlist, ipbans, muidbans, clients>>

\* ban, with the clients whose names have the substring: one of them is banned, of
\* several none, for the word "multi" is an argument more than the command takes.
SV_Ban_f(found, type, opens) ==
    IF Cardinality(found) = 1
    THEN \E i \in found : SV_BanProcess(i, type, opens)
    ELSE PrintsNothing /\ UNCHANGED <<banlist, ipbans, muidbans, clients>>

\* clientban, with the number of a client.
SV_BanNum_f(i, type, opens) == InGame(i) /\ SV_BanProcess(i, type, opens)

\* reloadbans.
ReloadBans(reads) ==
    /\ banlist' = X_ReadBannedList(ipbans, muidbans, reads)
    /\ PrintsNothing
    /\ UNCHANGED <<ipbans, muidbans, clients>>

\* The server starts with an empty game, from the files as they are by then.
StartsAnew(reads) ==
    /\ banlist' = X_ReadBannedList(ipbans', muidbans', reads)
    /\ clients' = [i \in ClientNum |-> Free]
    /\ PrintsNothing

Restart(reads) == UNCHANGED <<ipbans, muidbans>> /\ StartsAnew(reads)

\* The server dies between the fopen() of an unban, which empties the file, and
\* its fclose(), with n lines written.
DiesInUnbanIP(ip, n, reads) ==
    /\ n <= Len(IPLines(WithoutIP(ip)))
    /\ ipbans' = SubSeq(IPLines(WithoutIP(ip)), 1, n)
    /\ UNCHANGED muidbans
    /\ StartsAnew(reads)

DiesInUnbanMUID(m, n, reads) ==
    /\ n <= Len(MUIDLines(WithoutMUID(m)))
    /\ muidbans' = SubSeq(MUIDLines(WithoutMUID(m)), 1, n)
    /\ UNCHANGED ipbans
    /\ StartsAnew(reads)

------------------------------------------------------------------------------
(* Players *)

\* The two walks of the list in SV_DirectConnect; m is NoMUID while the master
\* has said nothing.
Connect(i, ip, m) ==
    /\ ~InGame(i)
    /\ ~RefusedIP(ip) /\ ~RefusedMUID(m)
    /\ clients' = [clients EXCEPT ![i] = [used |-> TRUE, ip |-> ip, muid |-> m]]
    /\ PrintsNothing
    /\ UNCHANGED <<banlist, ipbans, muidbans>>

BansInit ==
    /\ ipbans \in IPFiles
    /\ muidbans \in MUIDFiles
    /\ \E reads \in SUBSET Files : banlist = X_ReadBannedList(ipbans, muidbans, reads)
    /\ clients = [i \in ClientNum |-> Free]
    /\ printed = <<"none">>

BansNext ==
    \/ \E reads \in SUBSET Files :
        \/ \E opens \in BOOLEAN, ip \in IP :
                SV_BanIP_f(ip, opens, reads) \/ SV_UnbanIP_f(ip, opens, reads)
        \/ \E opens \in BOOLEAN, m \in MUID :
                SV_BanMUID_f(m, opens, reads) \/ SV_UnbanMUID_f(m, opens, reads)
        \/ ReloadBans(reads)
        \/ Restart(reads)
        \/ \E ip \in IP, n \in 0..MaxLines : DiesInUnbanIP(ip, n, reads)
        \/ \E m \in MUID, n \in 0..MaxLines : DiesInUnbanMUID(m, n, reads)
    \/ \E opens \in BOOLEAN, type \in {"IPBAN", "MUIDBAN"} :
        \/ \E found \in SUBSET {i \in ClientNum : InGame(i)} : SV_Ban_f(found, type, opens)
        \/ \E i \in ClientNum : SV_BanNum_f(i, type, opens)
    \/ \E i \in ClientNum, v \in Visitor : Connect(i, v.ip, v.muid)

BansSpec == BansInit /\ [][BansNext]_bvars

------------------------------------------------------------------------------
(* Properties *)

BannedIPs == {ip \in IP : \E k \in DOMAIN banlist : MatchesIP(banlist[k], ip)}
BannedMUIDs == {m \in MUID : \E k \in DOMAIN banlist : MatchesMUID(banlist[k], m)}

BansTypeOK ==
    /\ banlist \in Seq([type : {"IPBAN"}, who : IP, exact : {TRUE}]
                       \cup [type : {"MUIDBAN"}, who : MUID, exact : BOOLEAN])
    /\ Len(banlist) <= Len(ipbans) + Len(muidbans)
    /\ ipbans \in Seq(IP) /\ Len(ipbans) <= MaxLines
    /\ muidbans \in Seq([muid : MUID, bare : BOOLEAN]) /\ Len(muidbans) <= MaxLines
    /\ clients \in [ClientNum -> [used : BOOLEAN, ip : IP \cup {"none"},
                                  muid : MUID \cup {NoMUID}]]

\* "IP '%s' has been banned." (sv_commands.c:735): who asks to connect from an
\* address in the list is refused.
BannedIPIsRefused == \A ip \in BannedIPs : RefusedIP(ip)

\* Who is banned according to the files, if they can be read.
KeptIPs == ToSet(ipbans)
KeptMUIDs == {m \in Numeric : \E line \in ToSet(muidbans) :
                                    line.muid = m /\ (line.bare \/ m \in Long)}

Register == INSTANCE BanRegister WITH
    Kinds <- {IP, MUID},
    Lasting <- IP \cup (Long \cap Numeric),
    banned <- BannedIPs \cup BannedMUIDs,
    kept <- KeptIPs \cup KeptMUIDs

\* The list and the two files together are two sets of bans, those in force and
\* those kept, whatever fails and wherever the server dies.  A ban that lasts is
\* kept until it is taken back, or until another one of its kind is while a file
\* that could not be read has put it out of force.  Reading the files again brings
\* no ban into force that is not kept.  Who is told that an address "has been
\* unbanned" (sv_commands.c:643) sees exactly that ban gone, however often it stood
\* there.
ImplementsRegister == Register!RegisterSpec
============================================================================
