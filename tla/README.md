# Avalanches: specifications of the puzzle match and of the saved games

Avalanches is a collection of Kirikiri (TJS) scripts and native plugins. Its core
is GOKI2, a framework for visual novels and small games. These modules model the two
parts of it that are hardest to test:

* the falling-block puzzle of `ModPuzzle`, which two players play on one machine or over
  a WebRTC data channel: from the plugin's threads up to the blocks on the four boards,
  the turns and attacks of a match, the block that moves, and the computer player with
  its look-ahead in C++;
* the saved games, which three programs share: the game writes them, an installer moves
  them and an uninstaller deletes them, each by an index file that the others trust.

All paths below are relative to the repository root, which the maps call `src/`.
The TJS files are UTF-16; line numbers are those of the files as they are.

## 1. Inventory

| part | state it keeps | operations | what makes it correct |
|---|---|---|---|
| `SocketUDP` (`src/plugins/kirikiri/Fischerspooner/Socket.cpp`) | peer connection, data channel, connection state, queue of received strings, SDP string, `m_NotifiedOpenEvent`, three triggers | `Initialize`, `Close`, `SetRemoteSDP`, `SendData`, `PopReceivedData`; callbacks of the library: local description, gathering, data channel, state, open, message | no arrived string without an event to read it; no stale connection state; Close at any moment |
| `PuzzleINet` (`ModPuzzleINet.tjs`) | current handler, sequence numbers, sent packets, processed packets, packets read but not processed, initial blocks seen | handlers `onSDPGatheringDone`, `onConnectionComplete`, `onInitialize`, `onReceived`; `input`, `block`, `ojama`, `gameover`, `resend`, `sendAck` | packets of a type processed in order, each once; setup ends with the same blocks on both sides; both peers agree on the loser |
| block stream (`ModPuzzleUser.tjs`, part) | `nextBlockData`, `receivedBlockData`, `pendingCreateNewBlock_` of each layer | `getBlockData`, `getNewBlockData`, `addNewBlockData`, `sendNewBlockData`, `createNewBlock` | a mirror is dealt its owner's blocks; a waiting board gets its block |
| `PuzzleBaseLayer` (`ModPuzzle.tjs`) | two user layers, the pieces, `isGameOver_` | `initialize`, `start`, `stop`, `clear`, `gameOver`, `inetDisconnect` | one result per match; a match can be started again |
| `PuzzleUserLayer`, `PuzzleStatusLayer` (`ModPuzzleUser.tjs`) | board, erase map, counters of running animations, `falling_`, `attacking_`, `lockOjama`, ojama stocks, score | timers, keys, `decideBlock`, `fallPieces`, `erasePieces`, `fallOjamaPieces`, attack and counter attack, ends of animations | a turn ends exactly once; the next block appears only on a board at rest; ojama is neither lost nor invented |
| `PuzzleBlockLayer` (`ModPuzzleBlock.tjs`) | the falling pair, its direction, how often it was lifted; the map of the board | moves, turns, `decideBlock`, the timer of the layer and that of the computer player | what lies on the board stays; a block comes down; the computer's block ends where it was planned |
| `PuzzleAICore` (`BlueMonday-88/PuzzleAI.cpp`) and its driver `ModPuzzleAI.tjs` | pools of search nodes, the tree, the search stack, the cache of chain counts | `SetMapSize`, `AddNextBlock`, `NextStep`, `CalcNextStep`, `ShiftCandidate`, `SetNextRoot`, `SetOjamaPieces`, `Clear`; `initialize`, `onNewBlock`, `onIntervalTimer`, `clear` | no node lost, freed twice or used after it was freed; the best line survives pruning; the search's map is the game's map |
| saved games (`components/GLocation.tjs`, `ModBookmark.tjs`) | the files of the bookmarks, the system file that enables them, the index of the folder; `index_`, `context_` in memory | `save`, `load`, `copySaveData`, `eraseBookmark`, `loadSystemVariables`, `saveSystemVariables`, `addIndex`, `loadIndex` | what is enabled exists; what exists is in the index |
| installer and uninstaller (`tools/make/nsis_jp/`, plugin `MorningNightcap`) | `SaveLocation` in the registry, the chosen folder, the lines of the open index | `GameData`, `RelocationSaveData`, `DeleteIndexFile`, `Regist`; `OpenIndex`, `NextLine`, `PrevLine` | no save is lost by a move, whatever fails; a move can be tried again; the uninstaller leaves none |
| other GOKI2 components and modules, native helpers, vendored code | drawing, widgets, scenario text | | outside the scope of this project |

How they interact. The library's threads call back into `SocketUDP`, which queues
strings and posts events to the script's main thread (`AsyncTrigger`, one event per
`trigger()`, because `cached` is false). On the main thread `onFire` runs the
`handler_` of the moment, which empties the queue and works through the packets.
Between events the timers, keys and animations of `PuzzleUserLayer` run on the same
thread and call `input`, `block`, `ojama`, `gameover` or `sendAck`, which send at
once. The other peer is the same program with `isServer` false. The computer player is
an object beside a user layer: it is told of each new block, keeps its own copy of the
board in the search tree, and moves the block by the calls that keys would make. Game,
installer and uninstaller never run at once; they meet in the files they leave.

What is hard here: two kinds of threads around one lock that does not cover
everything; handlers that leave a loop early and rely on some later event; packets
of several types sorted together by numbers that are counted per type; requests
that cross the packet they ask for; two machines whose boards are to look alike
although each runs its own animations; a second copy of the board, in another language
and with a cache, that is never compared with the first; and files that are written one
after another by programs that may be killed between any two.

## 2. Modules

| module | models | how |
|---|---|---|
| `SocketUDP` | one endpoint of the plugin | a callback is first called by the library (`calls`) and does its work when it gets `m_Mutex`, which may be after `Close`; `onOpen` and the gathering callback, which trigger outside the lock, are two actions more; `Close` is `Close`, which takes the lock, and `CloseReset`; a script loop over `popReceivedData` is `Fire`, `PopReceivedData`, `PopNothing` |
| `MCSocketUDP` | instance of it | one message value: the plugin never looks at a string |
| `PuzzleINet` | two peers, channel, handlers | a packet is a record of kind, type and number; a handler's loop is one step per packet, in the order of the sort, whose ties are free; `raw` and `todo` are `rawData_` before and behind the loop's position |
| `OrderedDelivery` | what the protocol promises | per receiver and type: a count of packets sent and the log of those processed |
| `MCPuzzleINet` | instances of it | how many packets each game sends |
| `PuzzleBlockStream` | the blocks of the four boards | composes the user layers with the delivery that `OrderedDelivery` promises: packets of one type arrive in order, those of different types overtake each other |
| `OjamaStock` | the ojama stock of a status layer | pure operators: a stock is a count per column, changed by repeated halving |
| `PuzzleTurn` | the turns of the two user layers and the attacks between them | one action per handler (end of a mover or an animation, posted call, block put down) with all it calls: `endLanding` with `erasePieces`, `fallOjamaPieces` and `createNewBlock`, for instance. Variables have the names of the members; `fallers`, `landers`, `erasing`, `effect`, `half` say which movers and animations run, `posted` which calls `anotherCycle` holds |
| `PuzzlePlacements` | where pieces can be, fall and be put | pure operators over a board given as the set of its occupied cells; shared by the three modules below |
| `PuzzleBlockLayer` | one block from where it is dealt to where it is decided, moved by a human or by the computer | one action per key and timer; `moveLeft`, `turnRight`, ... with all that `updatePieceGridPos` does to the map, its exception included |
| `PuzzlePools` | the pools of search nodes (`PuzzleAllocator`, `m_Alloc`) | pure operators: a pool is a count per block of how often the free list holds it, so that a block that is freed twice or lost shows |
| `PuzzleSearch` | the search tree over the pools and the driver's calls on it | one action per call; `NextStep` is one step per node it takes from its stack. What a placement is worth is a choice |
| `PuzzleBoard` | the board of a computer player, on the layer (waves of landing, erasing, falling) and on the root of the tree (`GetChainCount` in one go, with its cache) | one action per wave and per handler; both sides share only the geometry |
| `SaveData` | game, installer, uninstaller and the files between them | one action per write, deletion or copy, so that a program may be killed between any two; `pc` says what runs and where it is |
| `MCPuzzleSearch`, `MCPuzzleBoard`, `MCSaveData` | instances of them | placements of a board, symmetry of colours, folders and bookmarks |
| `SocketUDP_proof`, `PuzzleINet_proof`, `PuzzleBlockStream_proof`, `PuzzleTurn_proof`, `PuzzleBlockLayer_proof`, `PuzzleSearch_proof`, `PuzzleBoard_proof`, `SaveData_proof` | theorems | see section 5 |

Points at which a model departs from a literal reading of the code:

* `PuzzleINet` starts when the descriptions are exchanged (`handler_` is
  `onConnectionComplete`); the SDP dialog before it is a human copying text.
* A data packet carries no payload. `transmissionData_` is then determined by the
  sequence counters: it holds the packets numbered below them. Packets in
  `receivedData_` are kept per type as the sequence of their numbers.
* `Scripts.eval("Creation done.")` throws, and so does a request for an input or
  ojama packet that was never sent. A thrown loop ends in the phase `thrown`; what
  the engine does afterwards is not modelled, and `NothingThrown` says it never
  happens on the plugin's own channel. In the read loop (`ReadFails`) the exception
  leaves the rest of the queue where it is, and the peer goes on.
* `connectionOk_` is `handler = "onReceived"`; `initialDone` of the server's two
  layers is one flag, because both are set in the same call.
* `SendData` succeeds. It fails only on a channel that is not open.
* `PuzzleBlockStream` keeps of the moves only those that put a block down: they
  end a turn of the mirror, or are ignored if the mirror has not got its next block
  yet (`decideBlockCalled`). A block is named by the peer that generated it and its
  number. Boards have room: the end of a match is the subject of `PuzzleINet`.
  A repeated block packet may be taken for a loss, which happens when it is read in
  one batch with the packet it repeats; the model allows it for every repetition.
* `PuzzleTurn` leaves the board open: how many pieces fall, how many groups are
  erased (each of exactly `Linking` pieces), whether the entry is blocked. If the entry
  (row 1) is free, its column has room for an ojama. `decideBlock` needs a running timer
  (`moving`), which `resetBlockPos` and `createNewBlock` have started. After a game over
  every handler returns at once, so nothing more is modelled.
* The movers of one status row start together and take the same time: `half` is one value
  per layer. When `addOjama` restarts them, `stop()` of each raises `onStopMover`; the
  last one runs `updateOjama` inside `startAnimationFirstHalf`, which itself stops and
  restarts the row: the new count is in the stock at once (`StockWith`) and the end of
  the animation is announced once more (`AddOjama`).
* A call in `anotherCycle` runs when the event loop is idle next. `LatterHalfEnds` and
  `EndErase` therefore wait for posted calls: the animations they end last 100 ms and more.
* `PuzzleTurn` is a match on one machine; `receivedOjamaData` and
  `pendingFallOjamaPieces_` belong to the network match and are not in it.
* In `PuzzleBlockLayer` the board holds no pieces but a set of occupied cells, without
  gaps, because a block is dealt only after everything has fallen (`NothingPending` of
  `PuzzleBoard`). A script array takes row -1 for the last row: `OnMap` does so too.
  Pieces get into row 0 only where a human puts them. Which placement the search prefers
  is left open: the computer may get any that `CalcNextStep` tries, or none.
* `PuzzleSearch` looks ahead `Depth` blocks, with the tree pruned as in the code; the
  game's depth is 10. `DeleteNodeIterative` takes the children off a node when it pushes them,
  so a node is freed as often as there are links by which it is reached (`DeleteNodes`); that
  this is once for each node of a tree is proved, not assumed. `Evaluation` is a choice of numbers, and whether a board has room for
  another block is part of that choice. `std::sort` is modelled as the stable insertion sort
  it is for so few elements. `Clear` is called with a root, as the driver does.
* `PuzzleBoard` has a tree of depth 1, because only the map of the root and of its children
  matters to the board. Ojama that was sent is there from the start; when it falls, how it is
  spread over the columns is a choice (`Drops`). A computer player is not locked by the
  opponent here; `PuzzleTurn` has the locks.
* `SocketUDP`: libdatachannel is not in the repository, and what the model takes from it is
  little: it calls the callbacks of one kind one after the other, those of different kinds in any
  order and at the same time, and none of a connection that is closed or replaced. Whether
  `onMessage(nullptr)` and the like wait for a callback that runs is the constant
  `WaitsForCallbacks`; both are modelled. `m_NotifiedOpenEvent`, which `onOpen` writes without the lock,
  takes the value at once. That the gathering callback reads `m_PeerConnection` without the lock,
  while `Close` resets it, is not modelled.
* `PuzzleINet` takes the plugin as a queue that announces what it holds, as
  `ReceivedIsRead` says it does for messages that are in time; no connection is closed in it.
* `SaveData`: a bookmark is written in two calls, its thumbnail, which replaces what the file held, and
  the data behind it (`SaveThumbnail`, `SaveUserData`; `CopyThumbnail` for a copy). In between,
  and if a call fails after it has touched the file, the file exists and does not load
  (`Spoiled`). `Thumbnails` is `ctx.format != ''`, by default true. The system file and the
  index are written at once, or not at all, and so is a file the installer copies. The game does not run while the
  installer or the uninstaller does, and it is not started if its folder is missing; without
  `SaveLocation` it uses a personal folder, which is not modelled. The uninstaller is not
  killed. `strays` are folders in which the player keeps files of his own, which decides
  whether `RMDir` removes them. `faults`, `saved` and `spoilt` are history.

## 3. Runs, bounds, fairness

| run | question | bounds, and why they suffice |
|---|---|---|
| `socket` | is data that is queued in time announced and read, is the state seen, whatever Close, failed sessions and late callbacks do | 2 sessions, 2 messages, 2 reports of the connection (a state, a description), a library that does not wait for callbacks: a message before, during and after `onOpen`, messages, states and `onOpen` of the first session that run in the second, its stale events, and a state that changes again before the script looks. 1,325,986 states. With a library that waits, `Close` may not return (section 4); the invariants hold for it too (section 5) |
| `inet` | order, setup, exceptions, unread data and the refinement of `OrderedDelivery` on the plugin's channel | server: 1 move, 1 block, 2 ojama; client: 1 move; 1 block asked for early. Two ojama packets share a batch with packets of the other types; a request crosses, repeats and makes up a block |
| `inet_live` | setup and processing end | server: 2 ojama; client: 1 move; the server may lose at any moment |
| `inet_lossy` | moves on a bad channel | no order, 1 loss, 1 repetition, 2 moves: loss and repetition of the same packet, of a request, or of a repeated packet |
| `blocks` | do the boards agree, does each get a peer's blocks once and in order, does waiting end | 2 turns per player: a board may be two blocks ahead, so that requests of both peers and a generated block cross |
| `turn` | one activity at a time, locks, posted counter attacks, no ojama under an attack, does every turn end | 1 turn per player, up to 2 groups at once and 2 in a chain, up to 2 pieces falling together, 2 columns with room for 2 ojama: landings that end in different orders, attacks of different strength, a stock of which part falls, and two offsets with counter attacks that cross. 156,724 states |
| `ai_search` | pools, stack, pruning, the blocks of the tree | pools of 4 nodes, so that the tree spans several and some are dropped; depth 2; boards with 3 placements, of which one is pruned, or a single last one; ojama and restarts at any moment. Every sequence of calls is covered, because block numbers are taken modulo `Depth + 1`. 22,630 states |
| `block_moves` | moves, turns, lifts and decisions | every board without gaps of 4 x 4 with room for the block, every placement for the computer, every sequence of keys for a human: walls on both sides, a full neighbour column, a shaft of one column. 25,397 states |
| `ai_board` | do the layer and the search play the same game, is anything left | 4 x 4, 2 colours, groups of 2, 3 blocks, 7 ojama pieces: chains of several waves, ojama beside groups and on top of columns, boards that fill up, a cache that outlives two boards. 425,536 states |
| `save_data` | saves across game, installer and uninstaller | 2 folders, 2 bookmarks with thumbnails, 2 saves of each, 3 runs of the installer, 1 mishap: a move that fails, is tried again and goes back, over files the first run left; a game killed before its index is written, or between a thumbnail and its data, and a move after it. 1,323,326 states. With 2 mishaps (12.9 million states) the same holds; without thumbnails it is proved (section 5) |
| `inet_loser`, `turn_muted` | what a comment or the test scenario says and the code does not do | the smallest instance that shows it |

`CHECK_DEADLOCK FALSE` in every configuration but that of `ai_search`: the bounds end the
games, a decided block or an uninstalled game has no next step, and a system in which
nothing is sent any more may stop. The computer player goes on for ever, so `ai_search`
checks that it is never stuck.

The channel. `createDataChannel("SocketUDP")` passes no options, so the channel is
ordered and reliable: `Ordered = TRUE`, nothing lost. The code nevertheless checks
for losses and repetitions ("パケットロス検出", "重複パケット破棄"); `inet_lossy`
judges these checks on the channel they are written for. The proofs about the moves hold on
either, their refinement of `OrderedDelivery` included; the proofs about all types of packets
assume the channel of the plugin (section 5).

Fairness. `SocketUDP`: the engine's event loop delivers each posted event and a
handler that runs goes on (weak fairness of the main thread's steps), and a callback
that was called ends as soon as it can have `m_Mutex`; `Close` returns unless it has to wait for a
callback. `PuzzleINet`: the connection opens, a reliable channel
delivers, and the main thread runs a posted event. `PuzzleBlockStream`: the same,
and animations end. `PuzzleTurn`: movers and animations end and posted calls run, because
the engine's timer drives them (weak fairness of each layer's `Step`). No fairness is
assumed of what a player does: `DecideBlock` may never come. `PuzzleBlockLayer`: the timer
of the layer, or of the driver, runs until the block is decided (weak fairness of
`OnIntervalTimer` and `OnAITimer`), while keys may come or not. `PuzzleSearch`, `PuzzleBoard`
and `SaveData` state safety only: nobody promises that a player installs, saves or plays.

The properties of every passing run are guarded by a mutated definition of the module
(`FireUnposted`, `BreakForgets`, `DoMoveFromRowTwo`, ...), kept next to the original
under a comment "A plausible slip in": with it TLC finds the property violated.

## 4. What the runs show

Holds: no wakeup is lost between the library's threads and the event loop, except for messages
that `onMessage` queues beside `onOpen` or after their session ended (`Announced`,
`ReceivedIsRead`; `silent` is true while such a message lies there with no event posted since); the
script is never left with an old connection state, also when a callback had to wait for `Close`; on the plugin's channel each
type of packet is processed in order, each once, and no handler throws; the game
starts only with all initial blocks; every packet is processed in the end; and
moves stay in order even on a channel that loses, repeats and reorders. In a match on
one machine a layer does one thing at a time, in whatever order the animations of
both players end (`OneActivity`): `erasePieces` runs once per fall, after the last
landing, and no ojama falls and no block appears beside another activity. Locks end with
the attacker's turn, no ojama falls under an attack, a counter attack is posted once,
and every turn ends unless its counter attack is never announced.

The block and the computer player: whatever is turned and lifted, a moving block leaves the
board alone (`BoardUntouched`), it comes down although it can be lifted
(`BlockComesDown`), and the computer, which never looks whether a move happened, still ends
where its search wanted to (`PlayedAsPlanned`). The pools lose no node over any sequence of
calls (`NothingLeaks`), so the leak for which `clear` of `ModPuzzleAI` deletes the core
("原因がわからんがリークしてる", `:177`) is not in the nodes; what is never emptied is
`m_ChainCountCache`. The search visits no freed node although every placement prunes the
whole tree (`StackIsLive`). What the search plays on its map is what happens on the board, as
long as it has a placement (`MapsAgreeWhilePlaying`), and nothing hangs or is left unerased
when a block is dealt (`NothingPending`), although only what fell is looked at.

The saved games: no move loses a save, whatever fails (`NoSaveLost`); a bookmark that is
enabled exists, and loads (`EntriesLoad`); a move that was given up can be tried again
(`MoveCanBeRetried`); the uninstaller leaves no save (`NothingLeft`). Each states in
its guard the mishaps after which the code does not keep it, and no others: a bookmark
whose own last save was cut short between thumbnail and data, or while either was written
(`spoilt`; that bookmark only), the game killed
with a file its index does not list yet, a first save of a bookmark that failed, an installer
killed after it began to delete, a deletion that failed. A weaker guard was refuted: with
three folders and five runs an installer that died while it deleted leaves a copy that a
later move puts over the newest save.

Does not hold, each with a counterexample of a few steps:

* `inet_loser` (`ModPuzzleINet.tjs:974`, `ModPuzzle.tjs:302`). The game over packet names the
  layer on the sender's screen, which on the receiver's screen is the other player: both
  players see the scenario of the loser.
* `turn_muted` (`ModPuzzleUser.tjs:388`). A layer whose offset left a counter attack
  due waits for the end of its status animation. If the opponent's counter attack
  arrives before, `addOjama(n, true)` restarts the animation with `opponentAdded_` set,
  and no event is raised for it: the layer never continues. `TurnEndsUnlessMuted`
  shows that this is the only way a turn can hang.

Seen in the models, without a run of its own:

* `Socket.cpp:263`: `onOpen` posts its event and sets `m_NotifiedOpenEvent` afterwards, without
  the lock. If that event is handled in between, and then a message is queued, no event
  announces it, although `:253` says so ("データが届いたことを通知"): it is read when the next one
  comes. `OnOpenTrigger`, `Fire`, `PopNothing`, `OnMessage` and `OnOpenNotified`, in this
  order, lead there; `silent` is then true.
* `Socket.cpp:84`: `Close` replaces callbacks while it holds the lock they take. If the library
  does not wait for those that run, an `onMessage` that waits for the lock (`:249`) fills the queue
  `Close` has emptied, and the next session reads the message (`Close`, `CloseReset`,
  `OnMessage`); if it does wait, `Close` never returns (`CallbacksReplaced` stays false while
  the callback waits for `MutexFree`). One of the two happens with any library.
* `ModPuzzleINet.tjs:1140`: `prevSeqOjama` is not advanced in the loop, so the second of two
  ojama packets of one batch is reported as a loss and a packet that was already processed is
  sent again. Order is not affected (`AllInOrder`).
* `ModPuzzleINet.tjs:790`: on a channel that loses messages the setup hangs when an initial
  block is lost, because it is asked for only if a later packet is still in `rawData_`.
* `ModPuzzleUser.tjs:1367`: if the client's player is faster, the server's mirror asks the
  client for a block, and the client generates one; from then on the boards may be dealt
  different blocks. Even before, a block that the server makes up for a request reaches all
  boards but the server's own mirror (the last conjunct of `BlocksAgree`).
  Whatever the two have made up, no board gets a block twice or out of its peer's order
  (`InOrderBySource`).
* `ModPuzzleUser.tjs:116`, `:2312`, `:2799`: a second `addOjama` within the first half of the
  animation overwrites the count of the first; a counter attack flies without a lock; after
  an offset that leaves no counter attack the ojama fall at once, from the stock before it.
* `ModPuzzleUser.tjs:1213`: `doMove` lets a piece move above row 1 whatever is there, and
  `deployPiece` then throws if a human gets it into another piece. The computer never does.
* `ModPuzzleAI.tjs:265`: without a placement (`getNextBlock` returns null) the block falls
  where it is dealt and the search does not learn of it: the maps differ from then on, which
  only `checkMap` of the debug mode reports.
* `PuzzleAI.cpp:1170`: the cache keeps the count of the whole chain for the state of its last
  wave, so a later hit may give too long a chain; never too short (`ChainNotShort`).
* `PuzzleAI.cpp:1326`: the comment speaks of the best three, two are kept.
* `mod_utils.nsh:483`: files that are not managed are never deleted, says the comment;
  `krenvprf.kep` and `*.cfu` are, unlisted (`:519`).
* `setup_master.nsi.template:109`: an installer that ends between moving the saves and
  writing `SaveLocation` leaves the registry at a folder without saves; if the folder still
  exists, the next run makes an empty index there and copies it over the new one.
* `GLocation.tjs:65`: a name is in the index before its file exists; after a first save that
  failed the installer stops at that name.
* `ModBookmark.tjs:804`, `:904`: the thumbnail is written into the file before the data, so a save
  that fails or is killed spoils the one it replaces, while the entry stays enabled (`spoilt` in
  `NoSaveLost` and `EntriesLoad`). `copySaveData` of a bookmark onto itself
  (`CopyThumbnail(b, b)`) overwrites the data with the thumbnail before it loads them;
  a copy stays unlisted until the system variables are saved again.

## 5. Proofs

All theorems hold for every value of the constants that satisfies the named
assumptions (`SocketAssumption`, `PuzzleINetAssumption`, `BlockStreamAssumption`,
`TurnAssumption`, `SizeAssumption`, `PoolAssumption`, `SearchAssumption`,
`BoardAssumption`, `SaveDataAssumption`).

`SocketUDP_proof`: `TypeCorrect`, `DataIsAnnounced`, `StatusIsSeen`.
All three hold for a library that waits for callbacks and for one that does not, and of the
order in which callbacks of different kinds run they assume only that `onMessage` is not called before `onOpen` is. `Announced` alone is not inductive: a message
queued while `m_NotifiedOpenEvent` is false needs an event, and the only one may be that
of `onOpen`, which is handled at any moment. The invariant adds that once the channel of the session
is open, the flag is set or `onOpen` has yet to set it (`OpenIsNotified`, `FlagComes`), and
so when a message of the session is called (`MessageIsNotified`): so a message in time finds
the flag set. All others set `silent` if no event is posted, and the next event clears it, because
its handler reads whatever is there.

`PuzzleINet_proof`, for every channel, whatever it loses, repeats or reorders:
`TypeCorrect`, `MovesInOrder`, `GameWaitsForBlocks`, `NothingIsInvented` and `DeliversMoves`.
`MovesInOrder` is `Spec => []InputInOrder`. The invariant adds that, while the loop of
`onReceived` runs, `expected` is the number after the last one logged; otherwise the check for
gaps would compare with something else. It needs nothing of the network, which is why loss and
repetition do not matter. `GameWaitsForBlocks`: "Creation done." is in the channel, the queue
or `rawData_` of the server only if the client has all three blocks; the proof carries the
absence of that string as a typing fact (sequences over the other packets).
`NothingIsInvented`: a packet with data, wherever it is under way or held, has a number
below the next one its sender will give, because a repetition takes it from
`transmissionData_` and a block that is made up for a request takes the next number.
With `MovesInOrder` this gives `DeliversMoves`: as long as only moves are promised,
`Spec => ImplementsDelivery` on any channel.

The second half of `PuzzleINet_proof`, for the channel that `createDataChannel` without options gives
(`Reliable`: in order, nothing lost, nothing repeated): `LinesHold`, `PacketsInOrder`
(`AllInOrder`), `HandlersReturn` (`NothingThrown`), `NoPacketLeftBehind` (`UnreadIsAnnounced`)
and `DeliversInOrder` (`ImplementsDelivery`, all types). What a receiver has read
(`todo`, `rawData_`), what waits in the queue of its plugin and what is in the channel is one
line; of each type, the packets with new numbers stand in it in order, directly after those in
the log (`InLine`). The channel repeats nothing, but the handlers do: so the invariant
`ReliableInv` also says that a request is for a packet that was sent, that a repeated packet
is one its receiver has processed before, except in the setup, in which "Creation done."
comes alone, and that `prevSeqOjama`, which the loop forgets to advance, lags by what the
batch has processed, so that the request it causes repeats an old packet and nothing else.
`ReliableInv` was checked by TLC on the instance of `inet` (1,498,564 states) before it was proved.

`PuzzleBlockStream_proof`: `TypeCorrect`, `BoardsAgree` and `BlocksStayInOrder`, that is
`Spec => []BlocksAgree` and `Spec => []InOrderBySource`. For the first the invariant adds, as long as the client has generated nothing,
that no block packet is under way to the server, that those under way to the client
number blocks the server has generated, and which of the two queues of each board
is empty. The second holds also after both peers have made up blocks. Its invariant `OrderInv`
says instead that a peer's blocks are numbered without gaps, that the blocks a peer has
received for layer 1 are all the other's, so that one made up can be put before them
without overtaking an own one, and that nothing is ever put into `nextBlockData` of layer 2.

`PuzzleTurn_proof`: `TurnIsSequential`, `CounterIsPostedOnce`, `LockIsReleased` and
`AttackHoldsOjama`, that is `Spec => []OneActivity`, `[]CounterPostedOnce`, `[]LockEnds`
and `NoDropUnderAttack`. None is inductive alone. The invariant adds that
`landingAnimationMax_` is the number of landings seen plus the pieces that still fall or
land (`Counted`), so the test `>=` of `endLanding` recognises the last landing and no
other; that `falling_` and `attacking_` are set only while pieces fall and an attack
flies, so `fallOjamaPieces` is not blocked when it ends a turn; that while a counter
attack is posted and the status animation runs the opponent has no ordinary attack in
flight, so nothing announces the counter attack again (`PostedInv`); and that whoever is locked has an
opponent in the middle of a turn, and is locked while an attack flies (`LockInv`).
What the board decides is arbitrary in these proofs.
`TypeCorrect` (`TypeOK`) rests on what the operators of `OjamaStock` return, of which two
facts are theorems of their own: a stock loses exactly what falls, however it is spread over
the columns (`StockLosesWhatFalls`), and an attack adds no more than its power, although each
column rounds its share (`StockGrowsByNoMore`). They are inductions over the columns of a row.
The induction theorems of the library take an operator as a parameter, so the module states
induction, bounded induction and recursion for sets and functions instead (`Induction`,
`BoundedInduction`, `Recursion`) and proves them from the least element of a set of naturals.

`PuzzleBlockLayer_proof`: `PiecesStayOnTheMap` (`TypeOK`), `BoardStaysUntouched`, `ComputerNeverThrows` and
`ComputerPlaysItsPlan`, for boards of every size. `BoardUntouched` is inductive as it stands.
`PiecesStayOnTheMap` also says that the block is inside the walls and never higher above the
row it is dealt in than it was lifted (`OnBoard`).
The other two rest on three facts about the computer: the board has no gaps and nothing in
row 0 (`Supported`), the block is inside the walls (`Inside`), and the block is lifted only if
it is to stand on its head, in the column it is meant for (`Led`): so it is never above row 0,
where the map wraps around. `ComputerPlaysItsPlan` adds that the plan names the floors of its
columns (`Aimed`), and that a block which cannot go down has a piece on its floor
(`FreeIsAboveFloor`), from where `FallPos` takes the other piece to its own.

`PuzzleSearch_proof`: `TypeCorrect` (`TypeOK`), `PoolsLoseNothing` (`NothingLeaks`),
`SearchStaysInTree` (`StackIsLive`), `BestLineSurvives` (`BestLineKept`) and
`LinesFollowTheDeal` (`BlocksInOrder`), for every size of the pools, every depth, every set of
placements a board may have and every number of pools. The pools come first: `AllocNode` hands
out a block that nobody uses (`AllocNodeIsFresh`), blocks that are freed once are free once
(`DeallocateFrees`), and `DropEmpty` deletes no pool with a block in use
(`DropEmptyKeepsUsed`). The inductive invariant of the first four is `TreeInv`: the blocks in
use are exactly the nodes; `parent` and `children` agree, a child stands in one list and once
(`Linked`, `Rooted`); some numbering of the nodes grows by one from parent to child (`LevelsOf`),
which is how a tree is said to be without a cycle and what every induction over it uses; values
are the most of those below (`BestLines`); and between two calls no node has more than two
children (`Narrow`). The last is why `ShiftCandidate`, which runs over the whole tree after
each leaf that is calculated, drops nothing but leaves it has just got (`ShiftKeeps`): nothing that
waits on the stack of `NextStep` is ever freed. A tree in which an inner node had a third child would
break that. `LinesFollowTheDeal` needs a second invariant, `BlockInv`, which says where in
a handler's calls the core is: `Fresh`, `Adding` the k-th of the known blocks, `Moving` on
to the next root or `Clearing`. While the k-th block is added, a node lies as deep under the
root as its block comes after the one that moves (`Ordered`), and a leaf that has room lies at depth
`k`, or at `k - 1` if it is on the stack or under a node that is (`Awaited`, `Evened`); so
`AddNextBlock` never finds a leaf it would give the wrong block. The operators of the tree are
recursive functions; that `Under`, `Raised`, `Grown` and `DropEmpty` have the values their
equations give is proved from the existence of functions defined along a rank
(at the head of the module), the library's theorem about it needing an operator as parameter.

`PuzzleBoard_proof`: `BoardTypeCorrect` (`TypeOK`), `NothingIsPending` (`NothingPending`),
`MapsAgree` (`MapsAgreeWhilePlaying`) and `ChainIsNotShort` (`ChainNotShort`), for boards of
every size, any pieces, any size of a group that vanishes, any ojama and any number of turns.
The argument has four parts.

* What the operators compute. `Connected` is the least set that holds a cell and is closed
  under neighbours of the same id (`GroupIs`), so the cells of a group have the same group
  (`SameGroup`), and a group that is large after a change and was not before has a cell that
  changed (`ChangesMeet`). `Waves` is the loop of `GetChainCount`: it ends from every map
  (`WavesAre`), because a drop keeps the number of pieces (`DropKeepsPieces`, by an injection)
  and a wave that is not the last takes some (`WavesTakePieces`).
* The two maps. The search marks cells, and `DropPiecese` counts the marked cells under a
  piece; the layer empties cells, and `fallPieces` counts the empty cells under a piece, in the
  columns where pieces vanished. These are the same if the search's map has no piece over a gap
  (`GapsAreMarks`, `FallIsDrop`); a drop and a placement keep it so (`DropIsSolid`,
  `PlacementFits`).
* The cache. Every key of it is a map that no wave follows, so a hit ends the loop on the right
  map, and the number kept there is too large if anything (`CacheOvercounts`).
* The invariant `BoardInv`. While pieces have landed, every large group has a cell among them
  (`MapInv`); this, with `Rest` in all other phases, is what makes it enough to look at
  `fallPieces_`. While pieces hang, some set of marked cells makes the layer's map a map of the
  search in the middle of its loop, and the child that is played has what that loop ends on
  (`WaveInv`); between the waves it has what the rest of the loop would say of the pieces
  that landed (`PlayedInv`, `Plays`). After the ojama of a turn fell, the maps differ by just the
  ojama (`Settled`), which the driver then puts on the root. Without a placement the maps
  differ for good (`RootInv`): a board without a place for a block never gets one by more ojama
  (`LostStaysLost`). When a block is dealt, every child of the root is an answer to
  that block on the layer's map (`DealtInv`, `ChildrenAnswer`).

`BoardInv` was checked by TLC before it was proved, on the board of `ai_board` with three ojama
pieces: completely for two blocks (38,922 states), and for the first half a million states
with three.

`SaveData_proof`: `TypeCorrect`, `SavesAreKept`, `EnabledSavesLoad`, `MovesCanBeRetried` and
`UninstallerLeavesNothing`, for any number of folders, bookmarks, saves, runs and mishaps. The
inductive invariant is the conjunction of `TypeOK` and nine parts: an index has no name twice
(`InjectiveIndexes`); which folders have an index at each `pc` (`Folders`); the bookmark whose data
come next is spoiled by its thumbnail (`HalfWritten`); a bookmark
never saved has no file in any folder (`OnlySaved`); what was copied so far is the same in
both folders (`MovedSoFar`), which makes the deletion that follows safe; as long as neither
the game nor the installer was killed, the registered folder, or the new one during the
deletion, has of every bookmark the last save or what is left of it (`Current`), and its index or the game's memory lists it (`Complete`); what
an index lists exists (`Real`); a folder without a system file enables no bookmark, and what
is enabled exists (`Loadable`); and during an undisturbed uninstallation what exists is a line
that `PrevLine` still has to hand out (`Left`).

Only model-checked: the liveness properties (`ReceivedIsRead`, `BreakIsSeen`,
`SetupEnds`, `SentIsProcessed`, `PendingEnds`, `TurnEndsUnlessMuted`, `BlockComesDown`), which
need fairness and are out of the prover's reach. `TypeOK` of `PuzzleSearch`, of
`PuzzleBoard` and of `PuzzleBlockStream` is the other way round: it is proved, and no run checks it beside the stronger properties.

## 6. Plan

Done, in this order: `SocketUDP`, `PuzzleINet` with `OrderedDelivery`, `PuzzleBlockStream`,
`PuzzleTurn` over `OjamaStock`; then `PuzzlePools` and `PuzzleSearch`, `PuzzlePlacements` with
`PuzzleBlockLayer`, `PuzzleBoard`, and `SaveData`; with their runs and the proofs above. Next:

1. `PuzzleMatch`: `initialize`, `start`, `stop`, `clear`, disconnect and rematch over an
   abstract `PuzzleINet`: old sequence numbers, events of the last match, the throw of an
   offline game over.
2. Ojama of the network match: `receivedOjamaData`, `pendingFallOjamaPieces_` and the
   index the client's `fallOjamaPieces` uses (`ModPuzzleUser.tjs:1988`); the moves a mirror
   ignores.

## 7. Not modelled, and why

* A match's life: `start`, `stop`, `Close` and a broken connection during it (plan, item 1);
  the SDP dialog, in which a human copies text; the aftermath of a script exception, which is
  the engine's.
* Of the computer player: the numbers of `Evaluation` (any are allowed), levels, what the
  script never calls (`ClearAll`, `InitializeRootNode`, `RemoveNodesBelowValue`) and debug output.
* Of the saved games: what a bookmark contains, labels; sub-folders, which are
  never indexed; the other values and files of the installer.
* Of `MorningNightcap`: the table of handles, the encodings `TextBasedFile` converts between,
  `Setup.log` of another installer and `KrkrCF`: sequential conversions, each a few lines
  around a library call.
* Payloads, drawing, sound and scenario text; the rest of GOKI2, which is sequential script
  glue; `Registory` and other native helpers, which wrap one Win32 call each.
* Vendored code: `tp_stub` and `ncbind`, the interface of the Kirikiri engine, are more than two
  thirds of the repository's C++ and hold no logic of Avalanches.
