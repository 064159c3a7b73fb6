------------------------------- MODULE Tables -------------------------------
(***************************************************************************)
(* Look-ups in tables and lists: functions of scripts, spawn functions,    *)
(* config strings, cvars, the pk3 files of the server, the arguments of a  *)
(* command, bits in an array, and addresses as text.                       *)
(*                                                                         *)
(* Numbers of several bytes are sequences of bytes.  The name of a pk3     *)
(* file is the set of the words in it that matter here.                    *)
(***************************************************************************)
EXTENDS TextHelpers

\* The first place of x in a list, or 0: how all tables are searched.
FirstAt(list, x) == SelectInSeq(list, LAMBDA y : y = x)

------------------------------------------------------------------------------
(* Functions and methods of scripts *)

scriptFunctions ==
    <<"settempvec", "sqrt", "strtok", "issubstr", "tolower", "toupper", "ucfirst", "replace",
      "trim", "convert_string", "xprecachestring", "printconsole", "getsite", "seconds",
      "get_animation_index", "typeof", "sendservercommand", "trace", "md5", "getarraykeys",
      "passarray", "creturn", "cmd_argc", "cmd_argv", "cmd_argvbuffer", "concatargs", "getchat",
      "fopen", "fread", "fclose", "fwrite", "fexists", "fsize", "strpos", "salt_password",
      "getconfigstring", "configstringindex", "system", "getunixtime">>

scriptMethods ==
    <<"getposition", "setbounds", "setsize", "settakedamage", "setmaxs", "setmins", "setabsmins",
      "setabsmaxs", "setlight", "showtoplayer", "setWalkValues", "setwalkdir", "setbotstance",
      "setlean", "setaim", "fireweapon", "meleeweapon", "reloadweapon", "switchtoweaponid",
      "getmuid", "setvelocity", "getvelocity", "getplayerangles", "getspectatorclient", "getip",
      "ispure", "sendconnectionlesspacket", "sendservercommand", "sendgamestate", "hasclient",
      "get_ip", "getint", "setint", "getbyte", "getfloat", "setfloat", "getstance", "setbyte",
      "getuserinfokey", "getuserinfo", "dropclient", "kickbot", "renamebot", "isbot",
      "backbuttonpressed", "forwardbuttonpressed", "leftbuttonpressed", "rightbuttonpressed",
      "moveupbuttonpressed", "movedownbuttonpressed", "aimbuttonpressed", "reloadbuttonpressed",
      "leanleftbuttonpressed", "leanrightbuttonpressed", "hasperk", "setperk", "unsetperk",
      "getping", "setmaxspeed", "setmovespeedscale", "freeze_controls", "setspeed", "setping">>

\* The engine's own come first.
Custom(engine, table, fname) ==
    IF fname \in engine THEN [by |-> "engine", row |-> 0]
    ELSE [by |-> "table", row |-> FirstAt(table, fname)]

Scr_GetCustomFunction(engine, fname) == Custom(engine, scriptFunctions, fname)
Scr_GetCustomMethod(engine, fname) == Custom(engine, scriptMethods, fname)

Scr_GetVariableType(type) ==
    CASE type = 1 -> "string"
      [] type = 2 -> "localized-string"
      [] type = 3 -> "vector"
      [] type = 4 -> "float"
      [] type = 5 -> "integer"
      [] type = 7 -> "object"
      [] type = 15 -> "array"
      [] OTHER -> "undefined"

\* Items first, then what the game spawns, then what CoDExtended adds.
G_CallSpawnEntity(items, spawns, custom_spawns, classname) ==
    IF FirstAt(items, classname) # 0 THEN <<"item", FirstAt(items, classname)>>
    ELSE IF FirstAt(spawns, classname) # 0 THEN <<"spawn", FirstAt(spawns, classname)>>
    ELSE IF FirstAt(custom_spawns, classname) # 0
         THEN <<"custom", FirstAt(custom_spawns, classname)>>
    ELSE <<"none", 0>>

------------------------------------------------------------------------------
(* Config strings and cvars *)

\* From 1 whatever min is; 0 if there is none.
GScr_configstringindex(strings, str, min, max) ==
    LET at == {i \in DOMAIN strings : i < max /\ Q_stricmp(str, strings[i]) = 0}
    IN  IF at = {} THEN 0 ELSE Min(at)

Cvar_VariableString(vars, name) == IF name \in DOMAIN vars THEN vars[name].string ELSE <<>>
Cvar_VariableIntegerValue(vars, name) == IF name \in DOMAIN vars THEN vars[name].integer ELSE 0

Cvar_VariableStringBuffer(vars, name, bufsize) ==
    IF name \in DOMAIN vars THEN Q_strncpyz(vars[name].string, bufsize) ELSE <<>>

\* The value that is to come with the next map, if there is one.
Cvar_LatchedVariableStringBuffer(vars, name, bufsize) ==
    IF name \in DOMAIN vars /\ vars[name].latchedString # NULL
    THEN Q_strncpyz(vars[name].latchedString, bufsize)
    ELSE Cvar_VariableStringBuffer(vars, name, bufsize)

------------------------------------------------------------------------------
(* Files *)

FS_IsServerFile(basename) == basename \cap {"srv", "svr", "server"} # {}
FS_IsPakFile(name) == name \cap {"pak", "localized"} # {}

\* Of the directories and pk3 files that are searched, those that clients are
\* told of: first their checksums, then their names.
Referenced(searchpaths) ==
    SelectSeq(searchpaths, LAMBDA search : search.pak /\ ~FS_IsServerFile(search.pakBasename))

FS_ReferencedPakChecksums(searchpaths) ==
    LET paks == Referenced(searchpaths) IN [k \in DOMAIN paks |-> paks[k].checksum]

FS_ReferencedPakNames(searchpaths) ==
    LET paks == Referenced(searchpaths)
    IN  [k \in DOMAIN paks |-> <<paks[k].pakGamename, paks[k].pakBasename>>]

------------------------------------------------------------------------------
(* Arguments of a command *)

\* The line when k arguments have been looked at: one that does not fit ends it,
\* with a blank behind the last.  Arguments are counted from 0.
ConcatArgs(args, start, limit) ==
    LET count == Len(args) - start
        line[k \in 0..count] ==
            LET before == line[k - 1]
                arg == args[start + k]
                blank == IF start + k < Len(args) THEN <<32>> ELSE <<>>
            IN  IF k = 0 THEN [text |-> <<>>, ended |-> FALSE]
                ELSE IF before.ended \/ Len(before.text) + Len(arg) >= limit
                THEN [text |-> before.text, ended |-> TRUE]
                ELSE [text |-> before.text \o arg \o blank, ended |-> FALSE]
    IN  line[count].text

\* idx may be the number of arguments, where the engine finds nothing.
Cmd_Argv(args, idx) == IF idx < Len(args) THEN args[idx + 1] ELSE <<>>
GScr_Cmd_Argv(args, idx) == IF idx > Len(args) THEN <<>> ELSE Cmd_Argv(args, idx)
GScr_ConcatArgs(args, idx, limit) == IF idx > Len(args) THEN <<>> ELSE ConcatArgs(args, idx, limit)

\* Clients put a 0x15 before what is said.
GScr_getChat(args, idx, limit) ==
    LET chat == GScr_ConcatArgs(args, idx, limit)
    IN  IF chat # <<>> /\ chat[1] = 21 THEN Tail(chat) ELSE chat

------------------------------------------------------------------------------
(* Bits, bytes and addresses *)

\* The word and the bit in it.
BitPlace(bitNum) ==
    LET place[b \in 0..bitNum] ==
            IF b > 31 THEN [place[b - 32] EXCEPT !.word = @ + 1] ELSE [word |-> 0, bit |-> b]
    IN  place[bitNum]

COM_BitCheck(array, bitNum) ==
    LET p == BitPlace(bitNum) IN p.bit \in array[p.word]
COM_BitSet(array, bitNum) ==
    LET p == BitPlace(bitNum) IN [array EXCEPT ![p.word] = @ \cup {p.bit}]
COM_BitClear(array, bitNum) ==
    LET p == BitPlace(bitNum) IN [array EXCEPT ![p.word] = @ \ {p.bit}]

BigShort(l) == <<l[2], l[1]>>
BigLong(l) == <<l[4], l[3], l[2], l[1]>>

NET_CompareAdr(a, b) ==
    /\ a.type = b.type
    /\ \/ a.type = "NA_LOOPBACK"
       \/ a.type \in {"NA_IP", "NA_IPX"} /\ a.ip = b.ip /\ a.port = b.port

\* The bytes of the address as decimals or in hexadecimal, and the port.
NET_BaseAdrToString(a) ==
    IF a.type \in {"NA_LOOPBACK", "NA_BOT"} THEN <<a.type>>
    ELSE <<IF a.type = "NA_IP" THEN "decimal" ELSE "hexadecimal", a.ip>>

NET_AdrToString(a) ==
    IF a.type \in {"NA_LOOPBACK", "NA_BOT"} THEN <<a.type>>
    ELSE Append(NET_BaseAdrToString(a), BigShort(a.port))
============================================================================
