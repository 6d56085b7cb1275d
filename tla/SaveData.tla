------------------------------- MODULE SaveData --------------------------------
(* The saved games of a player, from program to program: the game writes them and an  *)
(* index of what it wrote (ModBookmark.tjs, GLocation.tjs); the installer moves what    *)
(* the index lists when the player chooses another place (setup_master.nsi.template);   *)
(* the uninstaller deletes what it lists.  Both read the index by the NSIS plugin        *)
(* MorningNightcap (Index.cpp).  A bookmark is written in two calls, the thumbnail and   *)
(* then the data behind it.  A program may be killed between any two calls that write,    *)
(* and a call that writes a bookmark may fail halfway; the system file and the index are *)
(* written whole or not at all, and only one of the programs runs at a time.             *)
EXTENDS Integers, Sequences, SequencesExt

CONSTANTS
    Location,    \* the folders the installer offers
    Bookmark,    \* the files of saved games
    System,      \* the file of the system variables
    NoLocation,  \* no value of SaveLocation in the registry
    Thumbnails,  \* are bookmarks written with a thumbnail?  The default of format is 'bmp24'
    MaxSaves,    \* bound: saves of one bookmark
    MaxRuns,     \* bound: runs of the installer
    MaxFaults    \* bound: kills, failing copies, saves and deletions

ASSUME SaveDataAssumption ==
    /\ System \notin Bookmark
    /\ NoLocation \notin Location
    /\ Thumbnails \in BOOLEAN
    /\ {MaxSaves, MaxRuns, MaxFaults} \subseteq Nat

File == Bookmark \cup {System}

\* What is in the file of a bookmark whose writing was cut short: it exists, and cannot be
\* loaded.
Spoiled == -1

VARIABLES
    file,      \* file[l][f]: what is written in a file, 0 if it does not exist
    entries,   \* entries[l]: the bookmarks the system file of a folder enables
    index,     \* index[l]: the index file of a folder, a sequence of names
    managed,   \* the folders that have an index file
    strays,    \* the folders in which the player keeps other files
    registry,  \* SaveLocation in the registry
    pc,        \* what runs, and where it is
    index_,    \* of the game: the names GLocation knows
    context_,  \* of the game: the bookmarks that are enabled
    writing,   \* of the game: the bookmark whose data comes next, {} or {b}
    target,    \* of the installer: MUIEX_SaveLocation
    indexes_,  \* of the plugin: the lines of the index that is open
    offset_,   \* of the plugin: how many of them were handed out
    saved,     \* history: the last save of each bookmark that was completed
    spoilt,    \* history: the bookmarks whose last save was cut short
    faults,    \* history: which kinds of mishap happened
    runs, mishaps  \* counted for the bounds

disk == <<file, entries, index, managed, strays>>
game == <<index_, context_, writing>>
plugin == <<indexes_, offset_>>
history == <<saved, spoilt>>
vars == <<disk, registry, pc, game, target, plugin, history, faults, runs, mishaps>>

Playing == {"play", "saveData", "copyData", "saveSystem", "saveIndex", "closeSystem", "closeIndex"}
Installing == {"gameData", "relocation", "move", "moveIndex", "delete", "regist"}
Uninstalling == {"un.delete", "un.regist"}

DiskTypes ==
    /\ file \in [Location -> [File -> Nat \cup {Spoiled}]]
    /\ entries \in [Location -> SUBSET Bookmark]
    /\ index \in [Location -> Seq(File)]
    /\ managed \subseteq Location
    /\ strays \subseteq Location
    /\ registry \in Location \cup {NoLocation}

MemoryTypes ==
    /\ index_ \in Seq(File)
    /\ IsInjective(index_)
    /\ context_ \subseteq Bookmark
    /\ writing \subseteq Bookmark
    /\ target \in Location \cup {NoLocation}
    /\ indexes_ \in Seq(File)
    /\ offset_ \in 0..Len(indexes_)

ProgressTypes ==
    /\ pc \in Playing \cup Installing \cup Uninstalling \cup {"off", "uninstalled"}
    /\ saved \in [Bookmark -> Nat]
    /\ spoilt \subseteq Bookmark
    /\ faults \subseteq {"game", "save", "installer", "delete"}
    /\ runs \in Nat
    /\ mishaps \in Nat

TypeOK == DiskTypes /\ MemoryTypes /\ ProgressTypes

Init ==
    /\ file = [l \in Location |-> [f \in File |-> 0]]
    /\ entries = [l \in Location |-> {}]
    /\ index = [l \in Location |-> <<>>]
    /\ managed = {}
    /\ strays \in SUBSET Location
    /\ registry = NoLocation
    /\ pc = "off"
    /\ index_ = <<>> /\ context_ = {} /\ writing = {}
    /\ target = NoLocation
    /\ indexes_ = <<>> /\ offset_ = 0
    /\ saved = [b \in Bookmark |-> 0] /\ spoilt = {}
    /\ faults = {}
    /\ runs = 0 /\ mishaps = 0

Exists(l, f) == file[l][f] # 0
Loads(l, f) == file[l][f] > 0
FolderExists(l) == l \in strays \cup managed \/ \E f \in File : Exists(l, f)

\* A program that ends forgets what it had in memory.
EndGame == pc' = "off" /\ index_' = <<>> /\ context_' = {} /\ writing' = {}
EndInstaller(end) == pc' = end /\ target' = NoLocation /\ indexes_' = <<>> /\ offset_' = 0

\* A mishap of a kind that a property has to know of.
Mishap(kinds) ==
    /\ mishaps < MaxFaults
    /\ mishaps' = mishaps + 1
    /\ faults' = faults \cup kinds

----------------------------------------------------------------------------
(* The game.                                                                       *)

\* A plausible slip in AddIndex: the name is not searched for.
AddAlways(names, f) == Append(names, f)

\* addIndex
AddIndex(names, f) == IF Contains(names, f) THEN names ELSE Append(names, f)

\* A plausible slip in LoadIndex: the index is made anew.
LoadNoIndex == <<>>

\* loadIndex
LoadIndex == IF registry \in managed THEN index[registry] ELSE <<>>

\* The constructor of GLocation loads the index, loadSystemVariables the entries.
StartGame ==
    /\ pc = "off"
    /\ registry # NoLocation
    /\ FolderExists(registry)
    /\ IF Exists(registry, System)
         THEN index_' = AddIndex(LoadIndex, System) /\ context_' = entries[registry]
         ELSE index_' = LoadIndex /\ context_' = {}
    /\ pc' = "play"
    /\ UNCHANGED <<disk, registry, writing, target, plugin, history, faults, runs, mishaps>>

\* Nothing of the last save is left, and this one is not complete.
Spoils(b) ==
    /\ file' = [file EXCEPT ![registry][b] = Spoiled]
    /\ spoilt' = spoilt \cup {b}

\* A call that writes a bookmark throws, before it touched the file or after.
WriteFails(b) ==
    \/ Spoils(b) /\ Mishap({})
    \/ UNCHANGED <<file, spoilt>> /\ Mishap(IF Exists(registry, b) THEN {} ELSE {"save"})

\* save: the thumbnail replaces what the file holds.
SaveThumbnail(b) ==
    /\ pc = "play"
    /\ saved[b] < MaxSaves
    /\ index_' = IF Thumbnails THEN AddIndex(index_, b) ELSE index_
    /\ \/ /\ IF Thumbnails THEN Spoils(b) ELSE UNCHANGED <<file, spoilt>>
          /\ pc' = "saveData" /\ writing' = {b}
          /\ UNCHANGED <<faults, mishaps>>
       \/ /\ Thumbnails /\ WriteFails(b)
          /\ UNCHANGED <<pc, writing>>
    /\ UNCHANGED <<entries, index, managed, strays, registry, context_, target, plugin, saved, runs>>

\* The data is behind the thumbnail: the bookmark is saved.
WriteData(b) ==
    /\ saved' = [saved EXCEPT ![b] = @ + 1]
    /\ file' = [file EXCEPT ![registry][b] = saved[b] + 1]
    /\ spoilt' = spoilt \ {b}
    /\ UNCHANGED <<faults, mishaps>>

\* The entry is enabled, then the data is written.  The system variables come next, for
\* copySaveData later.
SaveUserData(b) ==
    /\ pc \in {"saveData", "copyData"} /\ writing = {b}
    /\ context_' = context_ \cup {b}
    /\ index_' = AddIndex(index_, b)
    /\ \/ WriteData(b) /\ pc' = IF pc = "saveData" THEN "saveSystem" ELSE "play"
       \/ WriteFails(b) /\ pc' = "play" /\ UNCHANGED saved
    /\ writing' = {}
    /\ UNCHANGED <<entries, index, managed, strays, registry, target, plugin, runs>>

\* The end of the game saves the system variables too.
OnWindowClose ==
    /\ pc = "play"
    /\ pc' = "closeSystem"
    /\ UNCHANGED <<disk, registry, game, target, plugin, history, faults, runs, mishaps>>

\* saveSystemVariables: the system file, then the index.
SaveSystem ==
    /\ pc \in {"saveSystem", "closeSystem"}
    /\ index_' = AddIndex(index_, System)
    /\ file' = [file EXCEPT ![registry][System] = 1]
    /\ entries' = [entries EXCEPT ![registry] = context_]
    /\ pc' = IF pc = "saveSystem" THEN "saveIndex" ELSE "closeIndex"
    /\ UNCHANGED <<index, managed, strays, registry, context_, writing, target, plugin, history>>
    /\ UNCHANGED <<faults, runs, mishaps>>

SaveIndex ==
    /\ pc \in {"saveIndex", "closeIndex"}
    /\ index' = [index EXCEPT ![registry] = index_]
    /\ managed' = managed \cup {registry}
    /\ IF pc = "saveIndex" THEN pc' = "play" /\ UNCHANGED game ELSE EndGame
    /\ UNCHANGED <<file, entries, strays, registry, target, plugin, history, faults, runs, mishaps>>

\* The system file or the index cannot be written: the exception leaves the game running.
SaveFails ==
    /\ pc \in {"saveSystem", "saveIndex", "closeSystem", "closeIndex"}
    /\ Mishap({})
    /\ index_' = AddIndex(index_, System)
    /\ pc' = "play"
    /\ UNCHANGED <<disk, registry, context_, writing, target, plugin, history, runs>>

\* load_private_: an entry that is enabled; its name is added to the index.
Load(b) ==
    /\ pc = "play"
    /\ b \in context_ /\ Exists(registry, b)
    /\ index_' = AddIndex(index_, b)
    /\ UNCHANGED <<disk, registry, pc, context_, writing, target, plugin, history, faults, runs, mishaps>>

\* copySaveData: the thumbnail of one bookmark is written to another, then the first is
\* loaded, which throws if it is spoiled (also by its own thumbnail, if they are the same).
CopyThumbnail(b, c) ==
    /\ pc = "play"
    /\ Exists(registry, b) /\ saved[c] < MaxSaves
    /\ \/ /\ index_' = AddIndex(IF Thumbnails THEN AddIndex(index_, c) ELSE index_, b)
          /\ IF Thumbnails THEN Spoils(c) ELSE UNCHANGED <<file, spoilt>>
          /\ IF file'[registry][b] = Spoiled
               THEN UNCHANGED <<pc, writing>>
               ELSE pc' = "copyData" /\ writing' = {c}
          /\ UNCHANGED <<faults, mishaps>>
       \/ /\ Thumbnails /\ WriteFails(c)
          /\ index_' = AddIndex(index_, c)
          /\ UNCHANGED <<pc, writing>>
    /\ UNCHANGED <<entries, index, managed, strays, registry, context_, target, plugin, saved, runs>>

\* eraseBookmark: the entry is disabled, the file stays.
EraseBookmark(b) ==
    /\ pc = "play" /\ b \in context_
    /\ context_' = context_ \ {b}
    /\ UNCHANGED <<disk, registry, pc, index_, writing, target, plugin, history, faults, runs, mishaps>>

\* The files of a folder that its index does not list.
Unlisted(l) == {f \in File : Exists(l, f) /\ ~(l \in managed /\ Contains(index[l], f))}

KillGame ==
    /\ pc \in Playing
    /\ Mishap(IF Unlisted(registry) = {} THEN {} ELSE {"game"})
    /\ EndGame
    /\ UNCHANGED <<disk, registry, target, plugin, history, runs>>

Game ==
    \/ StartGame \/ OnWindowClose \/ SaveSystem \/ SaveIndex \/ SaveFails \/ KillGame
    \/ \E b \in Bookmark : SaveThumbnail(b) \/ SaveUserData(b) \/ Load(b) \/ EraseBookmark(b)
    \/ \E b, c \in Bookmark : CopyThumbnail(b, c)

----------------------------------------------------------------------------
(* The index files of the plugin.                                                  *)

\* OpenIndex opens the file for writing: one that does not exist is created, empty.
OpenIndex(l) ==
    /\ indexes_' = IF l \in managed THEN index[l] ELSE <<>>
    /\ index' = [index EXCEPT ![l] = indexes_']
    /\ managed' = managed \cup {l}
    /\ offset_' = 0

LineLeft == offset_ < Len(indexes_)

\* NextLine and PrevLine: the line a call hands out.
NextLine == indexes_[offset_ + 1]

\* A plausible slip in PrevLine: the last line is left out.
PrevLineSkipping == indexes_[IF Len(indexes_) - offset_ > 1 THEN Len(indexes_) - offset_ - 1 ELSE 1]

PrevLine == indexes_[Len(indexes_) - offset_]

----------------------------------------------------------------------------
(* The installer.                                                                  *)

StartInstaller(l) ==
    /\ pc = "off"
    /\ runs < MaxRuns
    /\ runs' = runs + 1
    /\ target' = l
    /\ pc' = "gameData"
    /\ UNCHANGED <<disk, registry, game, plugin, history, faults, mishaps>>

\* Section GameData makes the new folder manageable.  Whether the saves are moved was
\* decided on the page before.
GameData ==
    /\ pc = "gameData"
    /\ index' = [index EXCEPT ![target] = IF target \in managed THEN @ ELSE <<>>]
    /\ managed' = managed \cup {target}
    /\ pc' = IF registry \in {NoLocation, target} THEN "regist" ELSE "relocation"
    /\ UNCHANGED <<file, entries, strays, registry, game, target, plugin, history, faults, runs, mishaps>>

\* Section RelocationSaveData
RelocationSaveData ==
    /\ pc = "relocation"
    /\ IF FolderExists(registry)
         THEN OpenIndex(registry) /\ pc' = "move"
         ELSE pc' = "regist" /\ UNCHANGED <<index, managed, plugin>>
    /\ UNCHANGED <<file, entries, strays, registry, game, target, history, faults, runs, mishaps>>

\* A plausible slip in Copied: the file is renamed.
Renamed(f) ==
    /\ file' = [file EXCEPT ![target][f] = file[registry][f], ![registry][f] = 0]
    /\ entries' = IF f = System THEN [entries EXCEPT ![target] = entries[registry]] ELSE entries

\* What the old folder has of a file gets into the new one.
Copied(f) ==
    /\ file' = [file EXCEPT ![target][f] = file[registry][f]]
    /\ entries' = IF f = System THEN [entries EXCEPT ![target] = entries[registry]] ELSE entries

\* A plausible slip in Move: SafeFileCopy does not abort (NSIS_UTILS_ErrorBreakNoAbort).
MoveOnError ==
    /\ pc = "move" /\ LineLeft
    /\ \/ Exists(registry, NextLine) /\ Copied(NextLine) /\ UNCHANGED <<faults, mishaps>>
       \/ Mishap({}) /\ UNCHANGED <<file, entries>>
    /\ offset_' = offset_ + 1
    /\ UNCHANGED <<index, managed, strays, registry, pc, game, target, indexes_, history, runs>>

\* move_loop: a line is copied.
Move ==
    /\ pc = "move" /\ LineLeft
    /\ Exists(registry, NextLine)
    /\ Copied(NextLine)
    /\ offset_' = offset_ + 1
    /\ UNCHANGED <<index, managed, strays, registry, pc, game, target, indexes_, history, faults, runs, mishaps>>

\* SafeFileCopy fails, because the file does not exist or for any other reason, and the
\* player gives up: Abort.
MoveFails ==
    /\ pc = "moveIndex" \/ (pc = "move" /\ LineLeft)
    /\ IF pc = "move" /\ ~Exists(registry, NextLine) THEN UNCHANGED <<faults, mishaps>> ELSE Mishap({})
    /\ EndInstaller("off")
    /\ UNCHANGED <<disk, registry, game, history, runs>>

MoveEnds ==
    /\ pc = "move" /\ ~LineLeft
    /\ pc' = "moveIndex"
    /\ UNCHANGED <<disk, registry, game, target, plugin, history, faults, runs, mishaps>>

\* The index itself is copied, then DeleteIndexFile begins.
MoveIndex ==
    /\ pc = "moveIndex"
    /\ indexes_' = index[registry] /\ offset_' = 0
    /\ index' = [index EXCEPT ![target] = index[registry]]
    /\ pc' = "delete"
    /\ UNCHANGED <<file, entries, managed, strays, registry, game, target, history, faults, runs, mishaps>>

\* DeleteIndexFile: a line is deleted; that it could not be is not noticed.
Delete ==
    /\ pc \in {"delete", "un.delete"} /\ LineLeft
    /\ \/ /\ file' = [file EXCEPT ![registry][PrevLine] = 0]
          /\ entries' = IF PrevLine = System THEN [entries EXCEPT ![registry] = {}] ELSE entries
          /\ UNCHANGED <<faults, mishaps>>
       \/ Mishap({"delete"}) /\ UNCHANGED <<file, entries>>
    /\ offset_' = offset_ + 1
    /\ UNCHANGED <<index, managed, strays, registry, pc, game, target, indexes_, history, runs>>

\* The index goes last.  RMDir removes a folder only if it is empty then.
DeleteIndex ==
    /\ pc \in {"delete", "un.delete"} /\ ~LineLeft
    /\ managed' = managed \ {registry}
    /\ index' = [index EXCEPT ![registry] = <<>>]
    /\ pc' = IF pc = "delete" THEN "regist" ELSE "un.regist"
    /\ UNCHANGED <<file, entries, strays, registry, game, target, plugin, history, faults, runs, mishaps>>

\* Section Regist
Regist ==
    /\ pc = "regist"
    /\ registry' = target
    /\ EndInstaller("off")
    /\ UNCHANGED <<disk, game, history, faults, runs, mishaps>>

\* The old folder is being emptied, or is empty, and still the registered one.
Halfway == pc = "delete" \/ (pc = "regist" /\ registry \notin {NoLocation, target})

\* The installer is killed, or the player cancels because a value cannot be written.
KillInstaller ==
    /\ pc \in Installing
    /\ Mishap(IF Halfway THEN {"installer"} ELSE {})
    /\ EndInstaller("off")
    /\ UNCHANGED <<disk, registry, game, history, runs>>

InstallerStep ==
    \/ GameData \/ RelocationSaveData
    \/ Move \/ MoveFails \/ MoveEnds \/ MoveIndex \/ Delete \/ DeleteIndex
    \/ Regist

----------------------------------------------------------------------------
(* The uninstaller, if the player wants the saves deleted.                         *)

StartUninstaller ==
    /\ pc = "off"
    /\ registry # NoLocation
    /\ IF registry \in managed
         THEN OpenIndex(registry) /\ pc' = "un.delete"
         ELSE pc' = "un.regist" /\ UNCHANGED <<index, managed, plugin>>
    /\ UNCHANGED <<file, entries, strays, registry, game, target, history, faults, runs, mishaps>>

Unregist ==
    /\ pc = "un.regist"
    /\ EndInstaller("uninstalled")
    /\ UNCHANGED <<disk, registry, game, history, faults, runs, mishaps>>

Next ==
    \/ Game
    \/ \E l \in Location : StartInstaller(l)
    \/ InstallerStep \/ KillInstaller
    \/ StartUninstaller \/ Unregist

Spec == Init /\ [][Next]_vars
----------------------------------------------------------------------------
(* Properties.                                                                     *)

(* Until the saves are uninstalled, the registered folder has the last save of every    *)
(* bookmark, and while the installer empties it the new one has: whatever fails, nothing *)
(* is deleted that was not copied, and no copy overwrites a later save.  What the code   *)
(* does not keep: a bookmark whose own last save was cut short after its thumbnail; and, *)
(* after a game that died and left a save the index does not list, or an installer that  *)
(* died after it began to delete, the saves, for folders with earlier copies may become  *)
(* the registered one.                                                                   *)
NoSaveLost ==
    /\ registry # NoLocation
    /\ pc \notin Uninstalling \cup {"uninstalled"}
    /\ faults \cap {"game", "installer"} = {}
    => \A b \in Bookmark \ spoilt : file[IF Halfway THEN target ELSE registry][b] = saved[b]

(* A bookmark that the system file enables exists beside it, so that load_private_      *)
(* finds it, and loads, unless its own last save was cut short.  What can break this:    *)
(* the game dies while a file is written that the index does not list yet, the installer *)
(* dies after it began to delete and before SaveLocation is written, or, where there are *)
(* no thumbnails, a first save fails: with one, the entry is enabled only behind it.     *)
EntriesLoad ==
    /\ pc = "off" /\ registry # NoLocation
    /\ faults \cap {"game", "installer"} = {}
    /\ Thumbnails \/ "save" \notin faults
    => \A b \in entries[registry] : Exists(registry, b) /\ (b \notin spoilt => Loads(registry, b))

(* What the index of the registered folder lists exists, so that a move that was given  *)
(* up can be tried again.                                                               *)
MoveCanBeRetried ==
    pc = "off" /\ registry \in managed /\ faults \cap {"save", "installer"} = {} =>
        \A i \in DOMAIN index[registry] : Exists(registry, index[registry][i])

(* The uninstaller leaves no saved game in the registered folder.                       *)
NothingLeft ==
    pc = "uninstalled" /\ faults = {} => \A f \in File : ~Exists(registry, f)
================================================================================
