# CoDExtended in TLA+

CoDExtended is a shared library that is loaded into the Linux dedicated server of
Call of Duty 1.1 (a descendant of Quake III) and replaces parts of it: it patches
calls and whole functions of the engine when it starts (`codextended.c`) and brings
its own versions of the code that talks to clients that want to connect, to
administrators, to clients that download and to scripts. This directory holds TLA+
specifications of the parts of it that keep state between packets and frames, what
TLC checks about them and what TLAPS proves.

Paths below are relative to `src/src/`. The build modelled is the default one:
Linux, `CODPATCH=1`, without debugging, MySQL, Steam or web server.

## 1. Inventory

The server is one thread that runs `SV_Frame` in a loop: it takes packets one by
one, each to its end, advances the time, runs the game and sends messages. What
interleaves are therefore the *handlers*: packets of different clients, answers of
the master server, console commands, timers and frames, in any order. Packets come
by UDP and can be lost, repeated and delayed. Two text files outlive a process.
Everything else dies with it, but much of it outlives a client or a map, and that
is where most of the hazards lie.

| Component | State | Operations | Interacts with | Correct when |
|---|---|---|---|---|
| Rate limiter (`sv_main.c` 202-206, 469-513, 597-738) | pool `buckets`, hash chains `bucketHashes`, `outboundLeakyBucket`, static `lasttime` of rcon | `SVC_RateLimit`, `SVC_BucketForAddress`, `SVC_RateLimitAddress`; used by getinfo, getstatus, getchallenge, rcon | every connectionless packet | no sender exceeds burst plus elapsed periods; nobody is refused while buckets lie idle; the chains stay whole |
| Challenges and authorization (`sv_client.c` 199-233, 622-651, 792-861) | `challenges[]` of the engine, `x_challenges[]` beside it | `SV_GetChallenge`, `SV_XAuthorize`, first half of `SV_DirectConnect` | the xtnded master, client slots | an answer counts for the challenge it is about, however late it comes; a silent master blocks nobody |
| Client slots (`sv_client.c` 559-790) | `clients[]`, `xclients[]` | second half of `SV_DirectConnect`, drop, timeouts, bots | challenges, script callback, bans | a client has one slot; one in the game is not replaced early |
| Ban list (`sv_init.c` 27-106, `sv_commands.c` 452-776, `util.h` 52-54) | `banlist`, `ipbans.txt`, `muidbans.txt` | ban, clientban, banip, banmuid, unbanip, unbanmuid, reloadbans, start | connect | list and files are one register of bans, also when a file cannot be opened; who is banned is refused |
| Downloads (`sv_client.c` 1152-1300) | download fields of `client_t`, a window of 8 buffers | `SV_BeginDownload`, `custom_SV_WriteDownloadToClient`, the engine's nextdl, retransdl, stopdl | snapshots, file system | the client gets the file it asked for, whole |
| Client messages (`sv_client.c` 430-560, 1003-1080) | state, server id, sequence of reliable commands | `custom_SV_ExecuteClientMessage`, `SV_ClientCommand` | maps, downloads, game | a command runs once, in order; a client with an old gamestate gets the new one |
| Snapshot schedule (`sv_client.c` 1302-1425) | `nextSnapshotTime`, rate, fragments, drop reason | `SV_RateMsec`, `custom_SV_SendMessageToClient`, `custom_SV_SendClientMessages` | downloads, userinfo | a client gets its rate and no more, but never nothing |
| Userinfo (`sv_client.c` 893-950) | name, rate, snaps | `SV_UserinfoChanged` | slots, schedule | values in range; a muted name stays muted |
| Players' settings (`sv_commands.c` 314-450, 776-823, `sv_client.c` 961-1003, `sv_main.c` 740-782, `gsc_bots.c`, `scr_method_player.c`) | `x_clients[]` (the array `xclients` of other files), `customPlayerState[]`, `search_players[]` | mute, mutename, search, kick, say, script methods, bots | slots | a setting belongs to the player it was made for; a kick meets who was searched for |
| Heartbeat and versions (`sv_main.c` 102-176, 341-467) | static master addresses, timers | `SV_MasterHeartbeat`, answers of the master | cvars | masters hear in time, also after a change of a cvar |
| Status and info queries (`sv_main.c` 178-339) | none | `SVC_Info`, `SVC_Status` | rate limiter | text fits its buffer |
| Remote console (`sv_main.c` 469-513) | `lasttime` | `SVC_RemoteCommand` | rate limiter, scripts | guesses are a second apart |
| Script callbacks and errors (`script.c` 402, 720-760, 880-924, 1742-1786) | handles of script functions, `scr_return`, `scr_errors` | look-up for each map, callbacks, creturn, `Scr_Error` | game, chat, rcon | a callback runs the function of this map's script; one creturn stops one command |
| Game module and hooks (`codextended.c`, `init.c`, `librarymodule.c`, `script.c` 1862-1900) | patches of executable and library, pointers into the library, saved bytes | start, load and unload of the library, `Scr_RunCurrentThreads`, end | engine, scripts | all pointers are into the library that is mapped; nothing is freed twice |
| Bots and player state (`gsc_bots.c`, `sv_main.c` 740-783, `scr_method_player.c`) | `customPlayerState[]`, perks in `x_clients[]` | orders to bots, setping, setspeed, perks; each frame of a bot or a player | slots, scoreboard, status | a bot does what is in force for it and nothing else |
| Scoreboard and status (`librarymodule.c` 52-145, `sv_main.c` 265-339) | none | the scoreboard message, getstatus | player state | each line is that player's, as many as fit |
| Config strings of scripts (`script.c` 926-1018) | ring of indices 128-255 | `X_LocalizedStringIndex`, xprecachestring | game | an index in use is not given away |
| Script functions (`scr_string.c`, `script.c`, `scr_method_*.c`) | open files | text, tables, files, arguments | scripts | each returns what its name says, within its buffers |
| Entities for one player (`sv_snapshot.c`, `scr_method_entity.c`) | `SVF_SINGLECLIENT` of an entity | showtoplayer | | its reader is not installed, see 7 |
| Info strings, helpers (`shared.c`, `util.c`) | static buffers of `va` | `Info_*`, `va`, comparing, copying, splitting, replacing | everywhere | value of a key is what was set last |
| Packets and addresses (`unix_net.c`, `net_chan.c`, `msg.c`) | two sockets | `Sys_GetPacket`, compare and print addresses | connect, master | only the master is taken for the master |
| Wrappers of engine functions, movement, mathematics, optional libraries | one-time or none | | | not modelled, see 7 |

The hard behaviours, each with its line and the properties that cover it, are
the "hazards" of `PROJECT.json`. They fall into six groups: state of a slot that
outlives its owner (challenge slots, client slots, buckets, player state); answers and
retransmissions that arrive late, twice or not at all (master, blocks, commands,
gamestates); arithmetic of time (buckets, rates, a clock that wraps or is set
back); memory that must agree with files; what outlives a map or the library of the
game (handles, patches, flags, queues); and code that does several things of
which one fails.

## 2. Modules

| Module | Models | State and actions against the code |
|---|---|---|
| `LeakyBucket` | `SVC_RateLimit` on one bucket, 32-bit subtraction of times | operators; `ToInt` is the wrap of `int` |
| `RateLimiter` | the pool, chains and reclaiming; the four users of it | `buckets`, `bucketHashes` with `next`/`prev` as in C; `Query`, `RconGood`, `RconBad` are packets, `ClockStep` the two clocks |
| `AddressMeters` | abstract: a map from addresses to meters | refined by `RateLimiter` (`ImplementsAddressMeters`) |
| `RateLimiterHistory` | `RateLimiter` with the times of what was let through | history only |
| `Endpoints` | where packets come from | `NET_CompareAdr`, and the test for the same client |
| `Challenges` | the challenge table and the answers of the master | `challenges`, `x_challenges`; `master` is what the master has last said of a number |
| `ClientSlots` | which client gets which slot | `clients`; states from CS_CONNECTED on are one |
| `Connect` | composes both: `SV_DirectConnect` as a whole | one action per packet; `outcome` is what the packet came to |
| `ClientNumbers` | the numbers of client slots | shared by the modules that have slots |
| `BanList` | list, files and commands | `list_each` is `Visited`; `opens` says whether the `fopen` that writes works, `reads` which of those that read do; in `DiesInUnbanIP` and `DiesInUnbanMUID` the process ends in the middle of a rewrite |
| `BanRegister` | abstract: the bans in force and those kept for the next reading | refined by `BanList` (`ImplementsRegister`) |
| `Download` | server and client of a download | `cl` has the fields of `client_t`; blocks are numbers of units with the file and place they come from |
| `ClientMessages` | messages of a client while maps change | message numbers are ranks against the last gamestate |
| `SnapshotSchedule` | when messages go out | `cl.wait` is `nextSnapshotTime - svs.time`; `MessagesAtOnce` is the loop of `sv_fastDownload`; `pace` is history, with the messages (`burst`) that this loop still sends after the first has dropped the client |
| `Players` | names, mutes, the search for players, kick, say | `slots` has state, name and which connect it is; `muteOrders` is history: which connect has been muted |
| `Heartbeat` | the frame's test for a heartbeat, the cached addresses | `adr` of a cvar is the entry of the static array; `up` are the hosts that resolve in this frame |
| `InfoStrings` | `Info_ValueForKey`, `Info_RemoveKey`, `Info_SetValueForKey` | a string is the sequence of its pairs; `Size` is how many characters each half takes |
| `VaRing` | `va` | `index` and the place of the newest string |
| `ConfigStrings` | `X_LocalizedStringIndex`, xprecachestring | `configstrings` are the config strings from 1244 on; the ring is a static variable and survives `NextMap` |
| `ScriptCallbacks` | the handles of script functions, the flag of creturn, the queue of errors | a handle is the number of the map it was looked up for; `calls` says whether the script has called creturn; `returns` and `stopped` count |
| `GameModule` | patches of the executable and the library, and the calls through them | pointers and patches by group, each with the load it belongs to; `rctCode` and `rct_bytes` are the bytes of one function in memory and as saved |
| `BotOrders` | orders of scripts and the user command a bot makes of them | the bits of both button words are sets of masks; `ordered` is history: what is in force |
| `PlayerSettings` | pings, speed and perks; the scoreboard, getstatus and getinfo, which show them | `settings` is part of `customPlayerState`; an argument of a script is a number, undefined or of another type |
| `Packets` | reading from two sockets, and the two packets of the master that set something | one action for each call of `Sys_GetPacket`; `x_master` |
| `ScriptFiles` | fopen, fread, fwrite, fclose, fexists, fsize | a stream has a mode, a place and what the C library still keeps |
| `TextHelpers` | functions of text of `util.c`, `shared.c`, `scr_string.c`, `sv_client.c` | operators that go through a text as the code does; a text is a sequence of character codes |
| `Tables` | look-ups in tables and lists, cvars, pk3 files, arguments, bits, addresses | operators |
| `Helpers` | calls of the operators of both | `call` is one call with its result; each kind has a definition of what is right, said in another way than the code finds it |
| `Sums` | the length of what is put together of parts | one operator, for `PlayerSettings` |
| `SmallParts` | the modules from `BanList` on side by side | `part` says which of them takes the steps of a behaviour |
| `RateLimiterProofs`, `ConnectProofs`, `DownloadProofs`, `ClientMessagesProofs`, `SnapshotScheduleProofs`, `BanListProofs`, `SmallProofs`, `ScriptProofs` | theorems | |
| `MC...` | small instances | |

Three conventions. *Times* are kept as ages or waits, up to the largest value the
code tells apart, except in `RateLimiter`, whose subject is the arithmetic of the
clock. *What belongs to the engine* (its source is not here) is modelled by what
this code relies on and marked external in `PROJECT.json`: dropping and freeing a
client, nextdl, retransdl, gamestates, snapshots, the netchan, and the game client.
*Mutants* stand before the definition they alter, with a comment that begins with
"Mutant"; nothing else uses them.

`Connect` takes the result of the IP walk as an input and has the mUIDs that the
walk of the ban list finds as a constant; `BanList` models the list itself
and takes the connect as one step. `SnapshotSchedule` knows only whether a client
downloads; `Download` knows only that frames go on. `ClientMessages` has the
download as two steps.

## 3. Runs

All runs finish within five minutes with two workers.

| Run | What it asks | Instance, and why it is enough |
|---|---|---|
| `RateLimiterPool` | Do the chains stay consistent (`LinksOK`) under every order of allocation and reclaiming, with a clock that is set back? Is the pool a map of meters, so that every bucket is found again (`ImplementsAddressMeters`)? Are wrong passwords a second apart (`OneGuessPerSecond`)? | three buckets: head, middle and end of a chain can each be unlinked; three addresses on one chain and one on another; clock up to 3 with steps of -2. The colliding addresses are symmetric; every property treats them alike |
| `RateLimiterRate` | Are an address and the whole server bounded over *every* window of time (`RatesAreBounded`)? Is a newcomer refused only while all buckets are live? | two addresses and one bucket, so that losing and regaining a bucket is frequent; burst 2 and a clock up to 8 ticks give windows of several periods |
| `RateLimiterWrap` | *violation*, see 6 | integers of 4 bits or so: `IntLimit = 4` |
| `ConnectSlots` | Late, double and contradicting answers, and a client whose port changes: `DeniedStaysOut`, `RefusalsAreOwn`, `AdmissionIsDue`, `OneSlotPerClient`, `LiveNotResetEarly` | one challenge slot and three numbers: every number but the last loses its slot; two client slots with bots in them; waits of 2 and 1 ticks |
| `ConnectMaster` | Does a master that never answers stop a client that goes on connecting (`MasterSilenceDoesNotBlock`)? | two clients with one slot of each kind, a banned mUID |
| `ConnectRecycled` | *violation*, see 6 | |
| `SmallParts`, bans | Are list and files one register of bans, over restarts, whatever `fopen` fails and wherever an unban is cut short: does unban take out every copy and nothing else, does a ban outlive the process (`ImplementsRegister`)? | two addresses and two mUIDs, of which one is too short to be read back as it is written; files of two lines: doubles, and a ban before and after another; three kinds of visitors, one without an mUID; every combination of failing `fopen`s, and an end of the process at every line. mUIDs that do not start with a number are left to the theorem |
| `SmallParts`, players | Does a mute follow the player and not the slot (`MuteIsOwn`)? Whom does a kick drop (`KickHitsMatch`)? | two slots and two connects: a slot changes hands, by a leave, a kick or a connect on top of it; two names that a word matches and one it does not, one of them unprintable |
| `SmallParts`, heartbeat | `HeartbeatsGoToCurrent`, `MastersHear` | two masters, two hosts that resolve or not in any frame; a period below and one above the bound of 3 frames |
| `SmallParts`, info | `SetIsExact`, within the limit | two keys equal but for case and a third, values of two lengths and one that is not allowed, a limit of 13: strings with a key twice, and strings that are full |
| `SmallParts`, va | `PreviousIsKept`, inside the buffer | a buffer of 16: strings shorter than a third and longer ones, at every place |
| `SmallParts`, strings | Do strings in the lower half of the indices keep them (`LowerHalfStays`)? | four places, of which two are in the ring, and five strings with the empty one: the ring goes round on one map and on several |
| `SmallParts`, callbacks | Does a call of creturn stop one command at most (`ReturnsStopOne`)? Is a function of an earlier map ever called (`CallbacksAreCurrent`)? | five sets of script functions: all, the required ones, some, and two without one that must be there, so that loads fail early and late; three maps, so that a handle can skip one; three calls; a queue of two errors |
| `SmallParts`, game | Are patches and pointers those of the mapped library (`HooksAreCurrent`)? | two libraries, an `fs_game` that names the one that is loaded, three loads; loads fail, the game is unloaded, the engine quits and shuts down twice |
| `SmallParts`, bots | `BotDoesAsOrdered` | three orders: one that sets, one that replaces it and one that takes back, on two slots of which any are bots; numbers that a signed byte does not hold |
| `SmallParts`, settings | Does the scoreboard, the status and the movement show what was asked for, for the player of the line (`BoardShowsPlayers`)? | pings of one and three digits, a board of 22 characters and a list of 18, which hold one line or two according to the pings; two slots of which one is private; all ways to call setping that the code tells apart |
| `SmallParts`, helpers | Does every function of `TextHelpers` and `Tables` return what its definition says (`ResultsAreRight`)? | texts up to three characters of a tab, a capital, a colour mark and a small letter, with sizes 1 to 3: empty, full, overlapping and touching matches |
| `SmallParts`, packets | `PacketsTypeOK`: the version and the text are the master's, and what is no good is not handed on | two sockets with a packet each; a master that resolves or not, and others that pose as the master |
| `SmallParts`, files | `FilesTypeOK`: no more files are open than may be, and nothing crashes but for a -1 | one file, two streams on it or one and a leak, two texts |
| `BanListWalk`, `MutedSay` | *violations*, see 6 | |
| `Download` | `PiecesInOrder`, `WholeFile`, `NeverBroken`, `DownloadEnds` | a file of four units, window of three, fast blocks of two units: the window wraps, and both sizes meet in it; two packets under way; reads can fail at any block; a name the server refuses with an error, and one with "..", which it does not answer |
| `ClientMessages` | `RunsOnceInOrder` (each command that the flood test lets through once, in order, and no command counted without being run or refused), `NeverLost`, `ImpureGoes`, `EntersGame` | two commands (one that the flood test can refuse, one that it cannot), one change and one restart of the map, a packet each way |
| `SnapshotSchedule` | `RateKept`, `LoadingIsSlow`, `MessagesGoOn`, `DropTakesEffect` | messages of one and three packets, frames of 1 and 3 ticks, two rates on either side of each bound; 10 and 20 frames a second, so that a fast download sends one message in a frame, or three |

`SmallParts` has thirteen parts in one run. They share no variable, so a step of one
neither enables nor disables a step of another, and nothing is lost by letting
each behaviour take the steps of one part only. `part` is chosen at the start and the
variables of the others stay as they begin. `SmallTypeOK` joins their type
invariants. Several of these say more than types: where a string of `va` can end, how long an info
string gets, that the queue of errors ends, that perks belong to the player who
has the slot, whose packets were believed. `SmallView` leaves out what the last
step of the bans, the players, the callbacks, the bots and the files was: no guard reads it, and the
properties that do are about the step itself. The step `Ended` stands for the end of a
process (`GameModule`, `ScriptFiles`) or of the last map, so a deadlock anywhere else is found.

`PoolView` and `StateView` leave variables out of the states TLC tells apart:
the outcome of the last packet (written in every step and read by no guard), and
for the pool the outbound bucket, which no action that changes the pool reads;
`lasttime` stays because
`OneGuessPerSecond` compares it with what was let through. Both action properties
checked under a view are about the step itself, and `OneGuessPerSecond` is
proved as well.

`CHECK_DEADLOCK FALSE` is said for `Download` alone: once the file is there and
nothing is under way, that model has nothing more to do.

### Fairness

- `Connect`: frames go on (`WF(Tick)`). A client repeats its connect, so a connect
  that is again and again ready to be processed is processed in the end (`SF`).
  Nothing is assumed of the master.
- `Download`: frames write blocks, commands are reliable (`WF`), and a block that is
  sent for ever arrives some time (`SF` for each block number). The error packet of
  a file that cannot be opened is sent once, so `DownloadEnds` leaves it out.
- `ClientMessages`: both sides go on sending (`WF`), and a kind of packet that is
  sent for ever arrives some time (`SF` for each kind). Downloads end.
- `SnapshotSchedule`: frames go on.
- `SmallParts`: frames go on (`WF(FrameStep)`); the loop of the server calls
  `SV_MasterHeartBeat` in each. Nothing is assumed of look-ups or of the console.

## 4. Proofs

TLAPS checks these for all values of the constants, under the assumptions named in
the modules (`RateLimiterAssumption` and the like, which TLC evaluates in each run).

`RateLimiterProofs`:

- `TypeCorrect` (`Spec => []TypeOK`): no bucket exceeds its limit, all links are in range.
- `LinksCorrect` (`Spec => []LinksOK`). The inductive invariant is `TypeOK /\ LinksOK`.
  `LinksOK` says of each bucket that its neighbours point back at it, that a bucket
  without a predecessor is the head of its chain and that free buckets are linked
  nowhere. It is inductive only together: unlinking rewrites up to three buckets and
  a head, and that the three are different follows from neighbours pointing back.
  Unlinking and linking have a lemma each; a lookup that allocates does one after
  the other.
- `GuessSpacing` (`Spec => OneGuessPerSecond`), an action property, for every clock,
  also one that is set back.
- `MetersImplemented` (`Spec => ImplementsAddressMeters`): the pool with its chains is a map
  from addresses to meters. `LinksOK` does not say that a chain ends, nor that
  every bucket in use is on one: a ring of buckets that point back at each other satisfies it.
  The invariant `ChainInv` adds that the buckets can be numbered so that the number goes up along
  `next` (`Acyclic`), and that no address has two buckets (`OneBucketEach`). From this the
  walk from the head of a chain reaches the bucket of an address and no other
  (`LookupFinds`). Reachability is stated as the existence of a walk, so it needs no recursion.
  Allocating gives the new head a number below all others.
- `RatesHold` (`HistorySpec => []RatesAreBounded`). The invariant `RateInv` says that a bucket's worth,
  `burst * period + lastTime`, *covers* what any window that ends now has let through,
  and that the worth of a bucket that may be reclaimed is past, so that losing it
  grants nothing. The same is said of the bucket for replies.
- `RefusalsAreDue` (`Spec => RefusedOnlyByLiveBuckets`): a bucket in use that cannot be reclaimed
  has had a request that has not drained yet.

The last two have the hypothesis `ForwardOnly`: the clock is not set back and
stays below the largest int. Both are needed: a clock set back empties buckets
(`SVC_RateLimit` takes a negative interval for an expired one), and `RateLimiterWrap`, see 6, is
what happens behind the largest int. `RefusalsAreDue` also has `StartClock > 0`, since a `lastTime` of 0
counts as never used.

`ConnectProofs`, for any number of challenge slots, client slots, clients and numbers:

- `DenialsHold` (`Spec => DeniedStaysOut`), `RefusalsHold` (`Spec => RefusalsAreOwn`) and
  `AdmissionsHold` (`Spec => AdmissionIsDue`), action properties that follow from one
  invariant, `ChallengeInv`: no number is in two slots (`NumbersOnce`), and a slot refuses exactly
  if the master has denied the number *that is in it now* (`AnswersAreOwn`). The second
  is what late answers and recycled slots could break. It holds because `SV_XAuthorize`
  looks for the slot by its number, and a slot that is given away gets a number that
  nobody has been asked about. It also says that a slot whose question is open has no
  mUID, for otherwise the connect would not wait.
- `Typed` (`Spec => []TypeOK`): challenges, client slots and the outcome.
- `OneSlotEach` (`Spec => []OneSlotPerClient`). Its hypothesis `ClientsDiffer` says that
  being the same client, which the code takes to be the same IP address and the same qport *or*
  port, is transitive. It is so if clients behind one address differ in both; if two of
  them share a port with a third, the code itself mixes them up.
- `NotResetEarly` (`Spec => LiveNotResetEarly`), with `ClientsDiffer` and
  `sv_privateClients = 0`. The test for a reconnect stops at the first slot with
  the same client in it, free or not, so the invariant is `RecordsBehind`: a record of a client
  that is in the game lies behind the slot he plays in, never before it. With reserved slots this
  fails, and the property with it, see 5.

`ClientMessagesProofs`, for any number and kind of commands, maps and restarts:

- `CommandsNotLost` (`Spec => []NeverLost`) and `CommandsRunOnce` (`Spec => []RunsOnceInOrder`).
  The invariant `MessagesInv` orders the counters (confirmed, taken, issued); says that the
  numbers confirmed to the client ascend along the link (`Ascends`), so that a client never takes
  back a confirmation; that each packet repeats all commands since the one its sender had
  seen confirmed (`Repeats`), so that a server that has the packets before it misses
  none; and that what has run ascends and lacks only what the flood test may refuse (`Ran`).
  Facts about the set of commands that one packet makes run need induction over finite sets, which is done by the
  least counterexample (`LeastOf`).

`DownloadProofs`, each under the hypothesis `MaxRequests = 1` (one download of a client), for
every window, block size, size of files and number of packets under way:

- `PiecesStayInOrder` (`Spec => []PiecesInOrder`), `FilesArriveWhole` (`Spec => []WholeFile`) and
  `OnlyRefusedAreDropped` (`Spec => []NeverBroken`). The invariant `DownloadInv` has a part for
  each stage of a download (idle, requested, named, refused, under way, over). Under way, it says
  what *every* buffer of the window holds (`WindowOK`): the buffers from the block the client
  has acknowledged to the one read last hold consecutive stretches of the file, of the size
  their own read had, so that a change of the block size in the middle does no harm, and the one of size zero comes last;
  each packet under way is of a block the client already has, or is what the window
  holds under its number (`PacketsOK`); the acknowledgements under way count from the
  server's block up to the client's (`CommandsOK`), so none is out of turn; and what the
  client has got is the stretch before its block (`Prefix`). That two blocks of one window
  never share a buffer (`SlotsDiffer`) and how many units a read gives (`UnitsToRead`) are
  lemmas of arithmetic of their own. TLC has checked the invariant on windows of two and three, with up to four
  packets under way and files of six units.

`SnapshotScheduleProofs`:

- `ScheduleTypes` (`Spec => []TypeOK`): the effective rate lies between its bounds, whatever players
  and `sv_maxRate` ask for, so `SV_RateMsec` never divides by zero.
- `RateIsKept` (`Spec => []RateKept`): that no more than a packet is sent ahead of the rate does not
  follow from itself; the invariant adds that the *wait* covers what is
  ahead (`PaceInv`: `lead > 0 => lead <= rate * wait`), so that nothing is sent before
  it is paid. The one way past the rate is the loop of a fast download whose first message drops
  the client: the rest of that frame's messages go out at once. `PaceInv` says that only
  who has left has had such a burst, and `Sound` that who has left does not download, so there is no second one. The quotient of `SV_RateMsec` rounds down; the 48 bytes of the header
  make up for it as long as the rate is at most 48 bytes in a tick (48000 bytes a
  second), and that is the range in which rates are counted. Beyond it the code can
  exceed the rate by the rounding.
- `LoadingStaysSlow` (`Spec => LoadingIsSlow`), from the third part of `PaceInv`: the
  wait covers the rest of the second in which a loading client had its message. The burst of a drop comes in the
  frame of the drop alone, and that a second after the message before.

`BanListProofs`:

- `BansAreRegistered` (`BansSpec => ImplementsRegister`), for all mUIDs, addresses and files: list and
  files implement the two sets of `BanRegister`, the bans in force and those kept. They are two because the code
  clears the list before it opens the files: a file that cannot be opened puts its bans out of force until
  the next reading, and an unban in between writes the file from the list, so that they are gone. The register says exactly
  this much: a ban that lasts is kept until it, or another of its kind, is taken back. It lasts if it is one of
  an address or of an mUID of 32 characters that starts with a number other than 0; others are
  written with their reason and read back with it, or not at all, so they are in force until the next
  reading only. The invariant `BansInv` says that list and files have their forms and
  that who is in the game has an address, for otherwise `SV_BanProcess` would append to the list what no file can
  hold. The rest is what reading and writing do to the sets (`IPsOf`, `MUIDsOf` for the list,
  `ReadableIn` for the file): `Kept` (what the loops of the commands leave in a file) is a recursive
  function; that it exists and what it keeps (`KeptIsSelection`) follows from a least counterexample. `FirstLines`
  gives what is left of an unban that is cut short.
- `BansStayTyped` (`BansSpec => []BansTypeOK`): whatever fails and whichever
  file is read, the files hold no more lines than `MaxLines` and the list no more bans than both files
  together, each in the form the module gives it. `BanListAssumption` says that the files of the start are
  no longer either.

`SmallProofs`, about five independent parts, the helpers, and all the smaller parts together:

- `MutesAreOwn` (`PlayersSpec => [](PlayersTypeOK /\ MuteIsOwn)`). The invariant adds that no two
  slots hold clients of the same connect, for otherwise a mute of one would be noted for
  both, and that nobody is muted who has not yet connected. `TeamIsSpared`
  (`PlayersSpec => TeamMuteHolds`) follows from it.
- `KicksHit` (`PlayersSpec => KickHitsMatch`): the array of finds is cleared from an uninitialised
  index on, so the proof has to take in every value of it. If a word matches somebody, what an earlier search
  has left can make the finds several, and then nobody is dropped, but never a single wrong one.
- `SetsAreExact` (`InfoSpec => SetIsExact`), for all keys, values and limits, also for strings that
  have a key twice: removing the first place of a key moves the places behind it by one and leaves
  the first place of every other key the first (`OtherValueStays`), and adding behind or
  in front concerns the added key only.
- `VaStaysInside` (`VaSpec => []VaTypeOK`) and `VaKeepsPrevious`
  (`VaSpec => PreviousIsKept`), for a buffer of any size. The invariant adds
  that `index` stands right behind the newest string.
- `HeartbeatsFollowCvars` (`HeartbeatSpec => [](HeartbeatTypeOK /\ HeartbeatsGoToCurrent)`): a cvar whose
  `modified` is cleared has its own host as its address, or is empty.
  `HeartbeatSpacing` (`HeartbeatSpec => HeartbeatsAreSpaced`): the frames since
  the last heartbeat and those until the next are `MinBeat` at least, unless the console has
  asked for one.

- `InfoStaysShort` (`InfoSpec => []InfoTypeOK`): a set removes first and adds only what still fits, so
  the length stays within `MAX_INFO_STRING`. Lengths are sums along a string, and what a removal takes from them
  (and an addition at either end gives) is proved by a least counterexample. `ReceivedAssumption`
  says that the strings clients send are no longer, which the engine sees to.
- `SettingsAreKept` (`SettingsSpec => []SettingsTypeOK`): what is set for a slot is what was asked for it
  last (`AsAsked`), field by field; perks belong to the player who has the slot.
- `BoardsShowPlayers` (`SettingsSpec => BoardShowsPlayers`): each line of the scoreboard, of the status answer and
  each speed is that of the player named, and there are as many lines as fit and no fewer. The lines that
  fit are those whose lengths add up to no more than the limit. The sum is a recursive
  function, so the proof compares the sums of a list and of its beginnings
  (`AddsUpExists` and the lemmas behind it).
- `ReplaceFits`, `AppendsFit`, `ArgumentsFit`: for all texts, what `str_replace`, `Q_strcat` and
  `ConcatArgs` write has exactly the size, or is within the size, that was set aside for it. `str_replace` goes through its text twice, once
  to count and once to copy, and each pass is a recursive function of its own; that they stop after as many matches
  (`CountGoesOn`) and that the lengths of the pieces add up (`TogetherLength`) makes
  up the proof. The argument of `ConcatArgs` is an invariant of its loop: the line is within the limit, with its blank.
- `BitIsFound` and `BitsAreTheirOwn`: the loop of `COM_BitSet` is a division by 32, for every number,
  and bits of different numbers do not disturb each other.
- `AddressesAreTheirTexts`: `NET_AdrToString` tells two addresses apart exactly if `NET_CompareAdr` does,
  but for bots.
- `PartsStayTyped` (`SmallSpec => []SmallTypeOK`) and `PartsKeepPromises`: the run
  `SmallParts` as a whole. No step of one part changes a variable of another (`OnlyOne`), so each part sees
  only steps of its own or none (`PartsStepAlone`), and its theorem applies. What
  the run checks beyond the two is `ResultsAreRight` and `MastersHear`.

`ScriptProofs`:

- `ReturnsAreAnswered` (`CallbacksSpec => [](CallbacksTypeOK /\ ReturnsStopOne)`) and
  `CallbacksStayCurrent` (`CallbacksSpec => CallbacksAreCurrent`). The invariant adds
  `HandlesOK`: *while a map runs* all handles are of its scripts or 0. It has to be conditional:
  a load that fails at a required label leaves those after it as they were, and
  no script runs until a load has gone through.
- `HooksStayCurrent` (`GameSpec => [](GameTypeOK /\ HooksAreCurrent)`), inductive as it stands: the
  step that maps the library writes all pointers and saves the bytes, or is the last one.
- `BotsObey` (`BotsSpec => BotDoesAsOrdered`). The invariant `BotsInv` says of each slot, order for
  order, which bit or byte stands for it (`Agree`), also while no bot is in it; so an order never
  touches the bit of another, though both words use the same numbers.
- `LowerHalfIsKept` (`StringsSpec => LowerHalfStays`), for every number of places. The
  invariant is that the ring is in the upper half until a script sets it to 0; a new string
  goes there or to the first free place (`WhereNewGoes`, from the least-number principle).
- `StringsAreOnce` (`StringsSpec => []StringsOnce`): while scripts place no strings
  themselves, free places come after those in use, so the search, which ends at
  the first free one, never misses a string and none has two indices.

- `StringsStayInside` (`StringsSpec => []StringsTypeOK`), `BotsStayInBytes` (`BotsSpec => []BotsTypeOK`) and
  `FilesStayBounded` (`FilesSpec => []FilesTypeOK`): the ring never leaves the places of the strings;
  the buttons of a bot are those there are and its movement is a signed byte; a stream belongs to
  a file that exists, no more are open or leaked than may be, and nothing crashes but
  after an fopen that failed.
- `TheMasterIsHeard` (`PacketsSpec => []PacketsTypeOK`): version and text are those the master has sent,
  whoever else sends packets that look like its own and whether or not its name resolves, and
  what is no good is never handed on.

`TeamMuteHolds`, `HeartbeatsAreSpaced`, `StringsOnce` and `TypeOK` of `Connect` are proved and in no run.

Only model-checked: every liveness property (`MasterSilenceDoesNotBlock`, `DownloadEnds`,
`ImpureGoes`, `EntersGame`, `MessagesGoOn`, `DropTakesEffect`, `MastersHear`), which is out of the
prover's reach; and `ResultsAreRight`. That one compares some forty functions with definitions that are built
another way, with folds and recursive functions on both sides, and each comparison is an induction over
data. What it says of the size of a replaced text, of appending, of the length of a line of arguments,
of bits and of the text of whole addresses has the theorems above, for all arguments; the rest
(tokens, comparisons, colours, look-ups, cvars, pk3 files) stays with TLC.

## 5. Known limits of what is checked

- With reserved slots `LiveNotResetEarly` fails, so `ConnectSlots` has none and the
  theorem asks for none. The test for a reconnect looks at the first slot
  with the client in it, be it free: a client that knows the password and is denied by the script leaves
  his record in the free reserved slot 0, joins in slot 1 without the password, and connects
  again at once; the record in slot 0 is old enough, and he is put on top of himself in
  slot 1. Nobody but the client himself is replaced.
- A ban of an mUID that is not 32 characters long is read back with its reason, so it is in force until
  the files are next read. A file that cannot be opened for reading puts its bans out of force, and an
  unban before the next reading loses them for good; `BanRegister` allows both. That fopen begins to fail need not come from
  outside: `SV_BanProcess` leaves its file open when a client has no mUID ("Invalid mUID!"). A last line that is torn in
  the middle and a disk that is full are not modelled: a rewrite is cut short between two lines.
- A client dropped in a fast download gets what is left of the loop's messages at once (`sv_client.c:1399`),
  past rate and interval; `RateKept` and `LoadingIsSlow` name this burst.
- A download of a name with ".." is closed without an answer (`sv_client.c:1111`), and the client waits for ever:
  `DownloadEnds` speaks of the other refusals only.
- A clock that is set back empties buckets and gives them away (`SVC_RateLimit` takes a negative interval for
  an expired one), and `AddressMeters` allows it; `RatesHold` asks for a clock that is not.
- A packet of a block has its number but not the download it belongs to: a client that asks for the next
  file while blocks of the first that were sent again are still under way can take
  one of them for its own, and TLC shows `WholeFile` violated with `MaxRequests = 2`. This is
  the protocol of the engine and its clients; the run and the theorems are about one download.
- `EntersGame` leaves out a gamestate lost after a download without a restart of
  the map.
- The nibble of restarts in the server id wraps after 16; restarts are bounded below it.
- Who connects again on top of his own slot loses his mute: it is another
  connect, and `SV_DirectConnect` clears `x_clients` for it. `MuteIsOwn` and
  `TeamMuteHolds` speak of connects, not of persons.
- A kick for a word in nobody's name may drop a player that an earlier search has left in
  `search_players`, when the uninitialised `p` of `X_GetPlayersByName`
  is not 0; `KickHitsMatch` says nothing of such a word. A search finds zombies too, and
  one zombie with the name of a player makes the kick ambiguous.
- `renamebot` sets the name of a bot as it is; `PlayersTypeOK` promises
  printable names for people only.
- The number 64 passes the check of `getclient` and lies behind the array; the models have slots only.
- The port of a master is always 20510, because the arguments of `strstr` in
  `sv_main.c` are the wrong way round; hosts in `Heartbeat` stand for their addresses on that port. The built-in
  master, which is looked up once and never changes, is left out.
- Script authors beware: when the ring has reached its end, xprecachestring without an index
  sets it to 0, and from then on new strings go over those of the lower
  half; and the first string beyond the last place goes over the newest one,
  because the ring counts every new string. `LowerHalfStays` stops at the former and says nothing of
  the latter.
- An info string may become exactly `MAX_INFO_STRING` long (`InfoTypeOK`), after which every
  further change is refused as an error.
- Bans of a client that has just left (a zombie) are those of a client in the game.
- What scripts set in `customPlayerState` (pings, speed, orders to bots) is cleared by
  nothing: the next player in the slot has it. `BoardShowsPlayers` and `BotDoesAsOrdered` compare with
  what was asked for the slot; only perks are compared with the player. A call of setping with undefined alone leaves the override
  for status answers switched on, with the ping of the last call.
- Orders to bots add up where the code lets them: a bot that crouches and is then told
  to go prone holds both keys, and only "stand" takes either back.
- A call of creturn in a callback that never looks at the flag (a kill, a connect) stays and stops
  a later command that nobody meant; `ReturnsStopOne` only says that it is one. Nothing empties the
  queue of script errors (`script.c:1772`), so from the 65th on they are lost.
- If `fs_game` names another directory than the one the library came from, its pages stay
  read-only and the first patch ends the process; the same if there is no library.
- fopen returns -1 on failure while fread, fwrite and fclose test for 0 (`script.c:759`); fsize leaks a
  stream each time (`script.c:806`). fread ends its buffer nowhere; the model has what was read.
- trim takes out all white space, not that at the ends; strtok cuts the text of the
  script; replace without a match gives a null pointer to the script. `ResultsAreRight` states what they do.
- Both limits of the scoreboard are those of the code: 1024 characters of a buffer of 1400.
- Files of more than 128 MB would overflow the block number and are not modelled.

## 6. Where the code differs from what it says

- `RateLimiterWrap`: a bucket is reclaimed only if `lastTime > 0` (`sv_main.c:654`).
  `Sys_Milliseconds` turns negative 24.8 days after the start; from then on
  no bucket is ever reclaimed, the pool fills and every new address is refused.
- `ConnectRecycled`: a challenge slot that is given to a new address keeps the mUID of its
  old owner (`sv_client.c:829`); the new one plays under it, and the master is not asked.
- `BanListWalk`: `list_each` (`util.h:54`) visits the first element twice and the last
  never: the ban added last does not count.
- `MutedSay`: `muted` is commented "can this player chat?" (`server.h:432`), but the test in
  `SV_ClientCommand` (`sv_client.c:1068`) names `say_team` twice: what a muted player
  says to all is heard.

## 7. Not modelled

- *Entities shown to one player*: the function that reads the flag,
  `SV_AddEntitiesVisibleFromPoint_Stub`, is not installed (its line, `codextended.c:401`, is a comment), so
  showtoplayer has no effect.
- *Bit messages* (`msg.c`): the `MSG_` functions are jumps to addresses in the engine.
- *Movement and mathematics* (`bg_pmove.c`, `q_math.c`): floating-point code of Quake III,
  which TLC cannot evaluate.
- *Steam, MySQL, curl, web server*: off in the default build, or wrappers of libraries.
- *Script functions that get or set one field* of a structure of the engine, the registration
  of cvars and commands, and the single addresses that are patched: there is
  nothing between two steps that could go wrong.
- *Code that is not compiled or not called*: what stands under `#if 0` (object fields, ping
  limits), `SVC_IsGood`, `SanitizeString`, `CL_GetGuid`, `SV_IsLegacyMap`, the `Info_..._Big` functions,
  `SV_SendDownloadDone`, `BG_StringHashValue`, `G_SayTo` of `x_clientcmds.c`, `SV_AuthorizeIpPacket` (returns at
  once), tests of single characters in `shared.c`.
- *Texts* of answers and of the console, and the averages for debugging (`sv_client.c` 1421-1470).

A third of the lines of the implementation are mapped; most of the others are headers of
the engine's structures, mathematics, and what this list names.

## 8. Plan

Modelled so far, in the order of what matters most to the server's operation: rate limiter,
connect, bans, downloads, messages, schedule; then the smaller parts: players, heartbeat, info
strings, `va`, config strings, callbacks, hooks, bots, player state, packets, files and helpers.
Every safety property and every type invariant of the runs is proved but `ResultsAreRight`, of which parts are.
What is left:

1. The rest of `ResultsAreRight`: that `Q_CleanStr` and `strtok` keep what they should, and
   that the comparisons agree.
2. Downloads beyond the first of a client (`MaxRequests > 1`): `PiecesInOrder` fails there, and
   which part of it the code still keeps is open.
