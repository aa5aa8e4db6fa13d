-------------------------- MODULE ManagedSimulator --------------------------
(***************************************************************************)
(* The simulator of one PDC in the GUI (ManagedPdcSimulator): its          *)
(* configuration, the data feeds of its PMUs, the windows that edit both,  *)
(* the solution file, and the PDC that runs from them.                     *)
(*                                                                         *)
(* Two threads share the feeds without a lock: the GUI thread handles one  *)
(* message after another, and PdcProc takes a value from every feed for    *)
(* each frame.  What keeps them apart are the controls that the windows    *)
(* disable while the PDC runs.  A step is what a thread does between two   *)
(* accesses to the feeds.                                                  *)
(*                                                                         *)
(* PMUs are named by the order in which they were made, and so are the     *)
(* channels of each; a channel stands for a phasor, an analog or a digital *)
(* one, whose feeds and windows have the same form.  A position is an      *)
(* index of the code plus one, and a slot the positions of a PMU and a     *)
(* channel.                                                                *)
(***************************************************************************)
EXTENDS Integers, Sequences

CONSTANTS
    MaxPmus,        \* bound: PMUs made in one simulator
    MaxChannels,    \* bound: channels made in one PMU
    MaxEdits,       \* bound: what the user does besides starting and stopping
    Defaults,       \* the number of channels that AppendDefaultPMU gives a PMU
    Sizes           \* the numbers of entries that an input file may have

ASSUME SimulatorAssumption ==
    /\ MaxPmus \in Nat \ {0}
    /\ MaxChannels \in Nat
    /\ MaxEdits \in Nat
    /\ Defaults \in 1 .. MaxChannels
    /\ Sizes \subseteq Nat

VARIABLES
    m_simPdc,       \* "null", "running", or "garbage" before anything set it
    items,          \* SG_PmuConfigArray, by the names of its PMUs
    made,           \* how many PMUs were made, and how many feeds: history
    mixed,          \* history: a window wrote the fields of one PMU into another
    channels,       \* the channels of each PMU
    channelsMade,   \* history: how many channels were made in each PMU
    override,       \* the maps of BridgedPmuDataFeed: what a slot has
    size, cursor,   \* m_dataset.size() and m_cursor of the file at a slot
    chosenFor,      \* history: the PMU and channel that the input was set for
    archive,        \* the solution file: for each PMU the number of its channels
    tree,           \* the project view: for each PMU the number of its channels
    pmuWindow,      \* the PMU of which the window at a position edits the lists
    radio,          \* the input type that the window of a slot shows
    m_isActive,     \* of the PDC
    run,            \* m_pmuList of the PDC: the channels of each PMU
    pdc,            \* where PdcProc is
    at,             \* the slot that it is at
    framed,         \* history: this run has made a frame
    ready,          \* history: Ready when this run began
    gui,            \* where the GUI thread is
    edits,          \* what the user has done
    crashed         \* what ended the program, "no" if nothing did

config  == <<items, made, mixed, channels, channelsMade>>
feeds   == <<override, size, cursor, chosenFor>>
windows == <<tree, pmuWindow, radio>>
thread  == <<m_isActive, run, pdc, at, framed, ready>>
vars    == <<m_simPdc, config, feeds, archive, windows, thread, gui, edits, crashed>>

Pmus      == 1 .. MaxPmus
Positions == 1 .. MaxChannels
Slots     == Pmus \X Positions
NoPmu     == 0
NoOne     == <<0, 0>>

\* What a key of a map leads to.  "absent": operator[] has not inserted the key;
\* "deleted": a feed that is gone.
Kinds == {"absent", "null", "const", "file", "deleted"}

\* The PMU and the channel that the configuration has at a slot.
Owner(s) ==
    IF s[1] \in DOMAIN items /\ s[2] \in DOMAIN channels[items[s[1]]]
    THEN <<items[s[1]], channels[items[s[1]]][s[2]]>>
    ELSE NoOne

\* std::vector::erase.
Erased(seq, i) == [j \in 1 .. Len(seq) - 1 |-> IF j < i THEN seq[j] ELSE seq[j + 1]]

Lists == [p \in DOMAIN items |-> channels[items[p]]]

SimulatorIsActive == m_simPdc # "null"

\* The GUI thread takes up a message: a command of the user, or an edit.
Handles == crashed = "no" /\ gui = "loop" /\ UNCHANGED edits
Edits   == crashed = "no" /\ gui = "loop" /\ edits < MaxEdits /\ edits' = edits + 1

Crash(cause) ==
    /\ crashed' = cause
    /\ UNCHANGED <<m_simPdc, config, feeds, archive, windows, thread, gui>>

(***************************************************************************)
(* The manager.                                                            *)
(***************************************************************************)
\* Before PdcProc is started, or after it has ended.
NoThread ==
    /\ m_isActive' = FALSE
    /\ run' = <<>>
    /\ pdc' = "none"
    /\ at' = <<1, 1>>
    /\ framed' = FALSE
    /\ ready' = FALSE

NoOverrides_Kept == UNCHANGED feeds      \* mutant

NoOverrides ==
    /\ override' = [s \in Slots |-> "absent"]
    /\ size' = [s \in Slots |-> 0]
    /\ cursor' = [s \in Slots |-> 0]
    /\ chosenFor' = [s \in Slots |-> NoOne]

CloseAllDocuments_LeavesPmus ==      \* mutant
    /\ pmuWindow' = pmuWindow
    /\ radio' = [s \in Slots |-> "closed"]

CloseAllDocuments ==
    /\ pmuWindow' = [p \in Pmus |-> NoPmu]
    /\ radio' = [s \in Slots |-> "closed"]

\* A simulator whose PMUs have these numbers of channels.  The constructor leaves
\* m_simPdc as the memory was; the feeds are new ones.
Construct(number) ==
    /\ m_simPdc' \in {"null", "garbage"}
    /\ items' = [i \in DOMAIN number |-> i]
    /\ made' = Len(number)
    /\ mixed' = FALSE
    /\ channelsMade' = [i \in Pmus |-> IF i \in DOMAIN number THEN number[i] ELSE 0]
    /\ channels' = [i \in Pmus |-> [c \in 1 .. channelsMade'[i] |-> c]]
    /\ tree' = number
    /\ NoOverrides
    /\ NoThread
    /\ CloseAllDocuments
    /\ gui' = "loop"

CreateNewPdcSimulator == Construct(<<Defaults>>)

\* The file has the configuration alone.
CreateByByArchive == Construct(archive)

NextSolution(what) ==
    /\ IF what = "new" THEN CreateNewPdcSimulator ELSE CreateByByArchive
    /\ UNCHANGED <<archive, crashed>>

\* OnCreateNewSolution at the start of the program; the file that is there is of
\* a PDC without PMUs.
Init ==
    /\ m_simPdc \in {"null", "garbage"}
    /\ items = <<1>>
    /\ made = 1
    /\ mixed = FALSE
    /\ channelsMade = [i \in Pmus |-> IF i <= 1 THEN Defaults ELSE 0]
    /\ channels = [i \in Pmus |-> [c \in 1 .. channelsMade[i] |-> c]]
    /\ override = [s \in Slots |-> "absent"]
    /\ size = [s \in Slots |-> 0]
    /\ cursor = [s \in Slots |-> 0]
    /\ chosenFor = [s \in Slots |-> NoOne]
    /\ archive = <<>>
    /\ tree = <<Defaults>>
    /\ pmuWindow = [p \in Pmus |-> NoPmu]
    /\ radio = [s \in Slots |-> "closed"]
    /\ m_isActive = FALSE
    /\ run = <<>>
    /\ pdc = "none"
    /\ at = <<1, 1>>
    /\ framed = FALSE
    /\ ready = FALSE
    /\ gui = "loop"
    /\ edits = 0
    /\ crashed = "no"

\* OnCreateNewSolution and OnSimulatorSolutionOpen close the documents and delete the
\* simulator, which stops its PDC first.
CloseSolution(what) ==
    /\ Handles
    /\ \/ /\ m_simPdc = "null"
          /\ NextSolution(what)
       \/ /\ m_simPdc = "running"
          /\ CloseAllDocuments
          /\ tree' = <<>>
          /\ m_isActive' = FALSE
          /\ gui' = what
          /\ UNCHANGED <<m_simPdc, config, feeds, archive, run, pdc, at, framed, ready, crashed>>
       \/ /\ m_simPdc = "garbage"
          /\ Crash("garbage")

\* OnSimulatorSolutionSave.
Save ==
    /\ Edits
    /\ archive' = [p \in DOMAIN items |-> Len(channels[items[p]])]
    /\ UNCHANGED <<m_simPdc, config, feeds, windows, thread, gui, crashed>>

(***************************************************************************)
(* The list of PMUs in the window of the PDC, disabled while it runs.      *)
(***************************************************************************)
\* AddItem, and the edit of its label that follows: it rebuilds the project view.
AppendDefaultPMU ==
    /\ Edits /\ ~SimulatorIsActive
    /\ made < MaxPmus
    /\ made' = made + 1
    /\ items' = Append(items, made + 1)
    /\ channels' = [channels EXCEPT ![made + 1] = [c \in 1 .. Defaults |-> c]]
    /\ channelsMade' = [channelsMade EXCEPT ![made + 1] = Defaults]
    /\ tree' = [p \in DOMAIN items' |-> Len(channels'[items'[p]])]
    /\ UNCHANGED <<m_simPdc, mixed, feeds, archive, pmuWindow, radio, thread, gui, crashed>>

RemovePmuAtIndex_WhileRunning(p) ==      \* mutant
    /\ Edits
    /\ p \in DOMAIN items
    /\ items' = Erased(items, p)
    /\ UNCHANGED <<m_simPdc, made, mixed, channels, channelsMade,
                   feeds, archive, windows, thread, gui, crashed>>

\* The feed stays, the windows stay, and the project view is not rebuilt.
RemovePmuAtIndex(p) ==
    /\ Edits /\ ~SimulatorIsActive
    /\ p \in DOMAIN items
    /\ items' = Erased(items, p)
    /\ UNCHANGED <<m_simPdc, made, mixed, channels, channelsMade,
                   feeds, archive, windows, thread, gui, crashed>>

\* OnEndEditLabel of the list, with its ForceRebuild.
OnEndEditLabel ==
    /\ Handles /\ ~SimulatorIsActive
    /\ items # <<>>
    /\ tree' = [p \in DOMAIN items |-> Len(channels[items[p]])]
    /\ UNCHANGED <<m_simPdc, config, feeds, archive, pmuWindow, radio, thread, gui, crashed>>

(***************************************************************************)
(* The window of a PMU.  It takes the position from the project view, and  *)
(* keeps both the position and the PMU that was there for its lists.       *)
(***************************************************************************)
OpenPmuWindow(p) ==
    /\ Edits
    /\ p \in DOMAIN tree
    /\ pmuWindow[p] = NoPmu
    /\ \/ /\ p \in DOMAIN items
          /\ pmuWindow' = [pmuWindow EXCEPT ![p] = items[p]]
          /\ UNCHANGED <<m_simPdc, config, feeds, archive, tree, radio, thread, gui, crashed>>
       \/ /\ p \notin DOMAIN items
          /\ Crash("index")

\* Everything but the lists goes by the position: OnBnClickedCommit writes the name, the
\* code, the format and the frequency that the window shows into whatever PMU is there.
CommitPmu(p) ==
    /\ Handles
    /\ pmuWindow[p] # NoPmu
    /\ \/ /\ p \in DOMAIN items
          /\ mixed' = (mixed \/ items[p] # pmuWindow[p])
          /\ UNCHANGED <<m_simPdc, items, made, channels, channelsMade,
                         feeds, archive, windows, thread, gui, crashed>>
       \/ /\ p \notin DOMAIN items
          /\ Crash("index")

\* AddItem and RemoveItem of a list end by listing the channels in the project view.
RebuildChannels(p) ==
    /\ \/ /\ p \in DOMAIN items
          /\ tree' = [tree EXCEPT ![p] = Len(channels'[items[p]])]
          /\ UNCHANGED crashed
       \/ /\ p \notin DOMAIN items
          /\ crashed' = "index"
          /\ UNCHANGED tree
    /\ UNCHANGED <<m_simPdc, items, made, mixed, feeds, archive, pmuWindow, radio, thread, gui>>

AddChannel_WhileRunning(p) ==      \* mutant
    LET id == pmuWindow[p] IN
    /\ Edits
    /\ id # NoPmu
    /\ channelsMade[id] < MaxChannels
    /\ channelsMade' = [channelsMade EXCEPT ![id] = @ + 1]
    /\ channels' = [channels EXCEPT ![id] = Append(@, channelsMade[id] + 1)]
    /\ RebuildChannels(p)

AddChannel(p) ==
    LET id == pmuWindow[p] IN
    /\ Edits /\ ~SimulatorIsActive
    /\ id # NoPmu
    /\ channelsMade[id] < MaxChannels
    /\ channelsMade' = [channelsMade EXCEPT ![id] = @ + 1]
    /\ channels' = [channels EXCEPT ![id] = Append(@, channelsMade[id] + 1)]
    /\ RebuildChannels(p)

\* The overrides stay at their positions.
RemoveChannel(p, c) ==
    LET id == pmuWindow[p] IN
    /\ Edits /\ ~SimulatorIsActive
    /\ id # NoPmu
    /\ c \in DOMAIN channels[id]
    /\ channels' = [channels EXCEPT ![id] = Erased(@, c)]
    /\ UNCHANGED channelsMade
    /\ RebuildChannels(p)

\* The windows close without a trace: what is typed and not committed is lost.
ClosePmuWindow(p) ==
    /\ Handles
    /\ pmuWindow[p] # NoPmu
    /\ pmuWindow' = [pmuWindow EXCEPT ![p] = NoPmu]
    /\ UNCHANGED <<m_simPdc, config, feeds, archive, tree, radio, thread, gui, crashed>>

(***************************************************************************)
(* The window of a channel.                                                *)
(***************************************************************************)
SetOverride(s, kind) ==
    /\ override' = [override EXCEPT ![s] = kind]
    /\ chosenFor' = [chosenFor EXCEPT ![s] = IF kind = "deleted" THEN NoOne ELSE Owner(s)]

\* OnInitialUpdate shows the input there is and makes a constant if there is none;
\* then it asks for the name of the channel, which an old project view may offer
\* although it is gone.
OpenChannelWindow(s) ==
    /\ Edits
    /\ s[1] \in DOMAIN tree /\ s[2] \in 1 .. tree[s[1]]
    /\ radio[s] = "closed"
    /\ \/ /\ Owner(s) # NoOne
          /\ override[s] \in {"absent", "null"}
          /\ SetOverride(s, "const")
          /\ radio' = [radio EXCEPT ![s] = "const"]
          /\ UNCHANGED <<m_simPdc, config, size, cursor, archive, tree, pmuWindow,
                         thread, gui, crashed>>
       \/ /\ Owner(s) # NoOne
          /\ override[s] \in {"const", "file"}
          /\ radio' = [radio EXCEPT ![s] = override[s]]
          /\ UNCHANGED <<m_simPdc, config, feeds, archive, tree, pmuWindow, thread, gui, crashed>>
       \/ /\ Owner(s) = NoOne
          /\ IF override[s] \in {"absent", "null"} THEN SetOverride(s, "const")
                                                ELSE UNCHANGED <<override, chosenFor>>
          /\ crashed' = "index"
          /\ UNCHANGED <<m_simPdc, config, size, cursor, archive, windows, thread, gui>>

\* OnBnClickedCfgCommit.
CommitChannel(s) ==
    /\ Handles
    /\ radio[s] # "closed"
    /\ Owner(s) = NoOne
    /\ Crash("index")

CloseChannelWindow(s) ==
    /\ Handles
    /\ radio[s] # "closed"
    /\ radio' = [radio EXCEPT ![s] = "closed"]
    /\ UNCHANGED <<m_simPdc, config, feeds, archive, tree, pmuWindow, thread, gui, crashed>>

ClickRadio_WhileRunning(s) ==      \* mutant
    /\ Edits
    /\ radio[s] # "closed"
    /\ radio' = [radio EXCEPT ![s] = IF @ = "file" THEN "const" ELSE "file"]
    /\ UNCHANGED <<m_simPdc, config, feeds, archive, tree, pmuWindow, thread, gui, crashed>>

\* HandleStateChange disables the radio buttons while the PDC runs.
ClickRadio(s) ==
    /\ Edits /\ ~SimulatorIsActive
    /\ radio[s] # "closed"
    /\ radio' = [radio EXCEPT ![s] = IF @ = "file" THEN "const" ELSE "file"]
    /\ UNCHANGED <<m_simPdc, config, feeds, archive, tree, pmuWindow, thread, gui, crashed>>

\* OnBnClickedRdtCommit of a constant where a file was: SetAnalogOverride deletes the old
\* feed before it assigns the new one.  (A constant that was there gets a new value.)
CommitConstant(s) ==
    /\ Edits
    /\ radio[s] = "const"
    /\ override[s] = "file"
    /\ SetOverride(s, "deleted")
    /\ gui' = "assign"
    /\ UNCHANGED <<m_simPdc, config, size, cursor, archive, windows, thread, crashed>>

AssignOverride_Frees(s) ==      \* mutant
    /\ crashed = "no" /\ gui = "assign"
    /\ override[s] = "deleted"
    /\ UNCHANGED <<override, chosenFor>>
    /\ gui' = "loop"
    /\ UNCHANGED <<m_simPdc, config, size, cursor, archive, windows, thread, edits, crashed>>

AssignOverride(s) ==
    /\ crashed = "no" /\ gui = "assign"
    /\ override[s] = "deleted"
    /\ SetOverride(s, "const")
    /\ gui' = "loop"
    /\ UNCHANGED <<m_simPdc, config, size, cursor, archive, windows, thread, edits, crashed>>

\* OnBnClickedRdtCommit of a file, refused while the PDC runs.  A new feed has no data,
\* and SetInputFile keeps the data there are if it cannot open the file, and the
\* cursor if it can.
CommitFile(s, n) ==
    /\ Edits /\ ~SimulatorIsActive
    /\ radio[s] = "file"
    /\ n \in Sizes \cup {IF override[s] = "file" THEN size[s] ELSE 0}
    /\ SetOverride(s, "file")
    /\ size' = [size EXCEPT ![s] = n]
    /\ cursor' = [cursor EXCEPT ![s] = IF override[s] = "file" THEN @ ELSE 0]
    /\ UNCHANGED <<m_simPdc, config, archive, windows, thread, gui, crashed>>

(***************************************************************************)
(* The PDC runs from what is configured.                                   *)
(***************************************************************************)
\* Every file is at one of its entries, and no window offers to replace it.
Ready ==
    \A s \in Slots : override[s] = "file" =>
        cursor[s] < size[s] /\ radio[s] # "const"

\* There is a feed for every PMU, so that GetPmuDataFeedOrCreateDefault makes none.
StartSimulator ==
    /\ Handles
    /\ m_simPdc = "null"
    /\ m_simPdc' = "running"
    /\ run' = Lists
    /\ m_isActive' = TRUE
    /\ pdc' = "idle"
    /\ framed' = FALSE
    /\ ready' = Ready
    /\ UNCHANGED <<config, feeds, archive, windows, at, gui, crashed>>

StopSimulator ==
    /\ Handles
    /\ \/ /\ m_simPdc = "running"
          /\ m_isActive' = FALSE
          /\ gui' = "toggle"
          /\ UNCHANGED <<m_simPdc, config, feeds, archive, windows, run, pdc, at, framed, ready, crashed>>
       \/ /\ m_simPdc = "garbage"
          /\ Crash("garbage")

\* Shutdown has waited for PdcProc.
ShutdownReturns ==
    /\ crashed = "no"
    /\ pdc = "none"
    /\ UNCHANGED edits
    /\ \/ /\ gui = "toggle"
          /\ m_simPdc' = "null"
          /\ NoThread
          /\ gui' = "loop"
          /\ UNCHANGED <<config, feeds, archive, windows, crashed>>
       \/ /\ gui \in {"new", "open"}
          /\ NextSolution(gui)

(***************************************************************************)
(* PdcProc, as far as it uses the feeds.                                   *)
(***************************************************************************)
Runs(where) == crashed = "no" /\ pdc = where

MovesTo(where, p, c) ==
    /\ pdc' = where
    /\ at' = <<p, c>>
    /\ UNCHANGED <<m_simPdc, config, size, chosenFor, archive, windows, m_isActive, run,
                   ready, gui, edits>>

TestActive ==
    /\ Runs("idle")
    /\ MovesTo(IF m_isActive THEN "asleep" ELSE "none", 1, 1)
    /\ UNCHANGED <<override, cursor, framed, crashed>>

\* Without a client a tick makes no frame.
BeginTick ==
    /\ Runs("asleep")
    /\ \E where \in {"idle", "check"} : MovesTo(where, 1, 1)
    /\ UNCHANGED <<override, cursor, framed, crashed>>

\* GetAnalogValue looks into the map twice: whether there is an override, which inserts
\* a missing key, and then for the override.
CheckOverride ==
    /\ Runs("check")
    /\ at[1] \in DOMAIN run /\ at[2] \in DOMAIN run[at[1]]
    /\ \/ /\ override[at] \in {"absent", "null"}
          /\ override' = [override EXCEPT ![at] = "null"]
          /\ MovesTo("check", at[1], at[2] + 1)
       \/ /\ override[at] \notin {"absent", "null"}
          /\ MovesTo("use", at[1], at[2])
          /\ UNCHANGED override
    /\ UNCHANGED <<cursor, framed, crashed>>

\* ReadEntry: zeros without data, else the entry at the cursor.
ReadOverride ==
    /\ Runs("use")
    /\ crashed' = IF override[at] = "deleted" THEN "dangling"
                  ELSE IF override[at] = "file" /\ size[at] # 0 /\ cursor[at] >= size[at]
                  THEN "range" ELSE "no"
    /\ MovesTo("check", at[1], at[2] + 1)
    /\ UNCHANGED <<override, cursor, framed>>

ChannelsRead ==
    /\ Runs("check")
    /\ at[1] \in DOMAIN run /\ at[2] \notin DOMAIN run[at[1]]
    /\ MovesTo("signal", at[1], 1)
    /\ UNCHANGED <<override, cursor, framed, crashed>>

\* SignalNextFrame goes through the map; AdvanceCursor divides by the size.
SignalOverride ==
    /\ Runs("signal")
    /\ at[2] \in Positions
    /\ cursor' = IF override[at] = "file" /\ size[at] # 0
                 THEN [cursor EXCEPT ![at] = (@ + 1) % size[at]] ELSE cursor
    /\ crashed' = IF override[at] = "deleted" THEN "dangling"
                  ELSE IF override[at] = "file" /\ size[at] = 0 THEN "empty" ELSE "no"
    /\ MovesTo("signal", at[1], at[2] + 1)
    /\ UNCHANGED <<override, framed>>

ChannelsSignalled ==
    /\ Runs("signal")
    /\ at[2] \notin Positions
    /\ MovesTo("check", at[1] + 1, 1)
    /\ UNCHANGED <<override, cursor, framed, crashed>>

FrameDone ==
    /\ Runs("check")
    /\ at[1] \notin DOMAIN run
    /\ MovesTo("idle", 1, 1)
    /\ framed' = TRUE
    /\ UNCHANGED <<override, cursor, crashed>>

(***************************************************************************)
(* The next steps.                                                         *)
(***************************************************************************)
PdcProc ==
    \/ TestActive \/ BeginTick \/ CheckOverride \/ ReadOverride \/ ChannelsRead
    \/ SignalOverride \/ ChannelsSignalled \/ FrameDone

PmuWindow(p) ==
    \/ RemovePmuAtIndex(p) \/ OpenPmuWindow(p) \/ CommitPmu(p) \/ AddChannel(p)
    \/ \E c \in Positions : RemoveChannel(p, c)
    \/ ClosePmuWindow(p)

ChannelWindow(s) ==
    \/ OpenChannelWindow(s) \/ CommitChannel(s) \/ CloseChannelWindow(s) \/ ClickRadio(s)
    \/ CommitConstant(s) \/ AssignOverride(s)
    \/ \E n \in Sizes \cup {0} : CommitFile(s, n)

Next ==
    \/ \E what \in {"new", "open"} : CloseSolution(what)
    \/ Save \/ AppendDefaultPMU \/ OnEndEditLabel
    \/ StartSimulator \/ StopSimulator \/ ShutdownReturns
    \/ \E p \in Pmus : PmuWindow(p)
    \/ \E s \in Slots : ChannelWindow(s)
    \/ PdcProc

Spec == Init /\ [][Next]_vars

(***************************************************************************)
(* Properties.                                                             *)
(***************************************************************************)
ConfigTypeOK ==
    /\ items \in Seq(Pmus)
    /\ made \in 0 .. MaxPmus
    /\ mixed \in BOOLEAN
    /\ channels \in [Pmus -> Seq(Positions)]
    /\ channelsMade \in [Pmus -> 0 .. MaxChannels]

FeedTypeOK ==
    /\ override \in [Slots -> Kinds]
    /\ size \in [Slots -> Nat] /\ cursor \in [Slots -> Nat]
    /\ chosenFor \in [Slots -> Nat \X Nat]

WindowTypeOK ==
    /\ tree \in Seq(0 .. MaxChannels)
    /\ pmuWindow \in [Pmus -> {NoPmu} \cup Pmus]
    /\ radio \in [Slots -> {"closed", "const", "file"}]
    /\ gui \in {"loop", "assign", "toggle", "new", "open"}

ThreadTypeOK ==
    /\ m_isActive \in BOOLEAN
    /\ run \in Seq(Seq(Positions))
    /\ pdc \in {"none", "idle", "asleep", "check", "use", "signal"}
    /\ at \in (1 .. MaxPmus + 1) \X (1 .. MaxChannels + 1)
    /\ framed \in BOOLEAN /\ ready \in BOOLEAN

TypeOK ==
    /\ m_simPdc \in {"null", "running", "garbage"}
    /\ archive \in Seq(0 .. MaxChannels) /\ Len(archive) <= MaxPmus
    /\ edits \in 0 .. MaxEdits
    /\ crashed \in {"no", "garbage", "index", "dangling", "range", "empty"}
    /\ ConfigTypeOK
    /\ FeedTypeOK
    /\ WindowTypeOK
    /\ ThreadTypeOK

\* What was made earlier stands before what was made later, at its own position or,
\* after a removal, at a lower one.
ListsOrdered ==
    /\ \A i \in DOMAIN items : i <= items[i] /\ items[i] <= made
    /\ \A i, j \in DOMAIN items : i < j => items[i] < items[j]
    /\ Len(items) <= made
    /\ Len(items) = made => \A i \in DOMAIN items : items[i] = i
    /\ \A p \in Pmus :
          /\ Len(channels[p]) <= channelsMade[p]
          /\ \A c \in DOMAIN channels[p] : c <= channels[p][c] /\ channels[p][c] <= channelsMade[p]

\* Without a removal the project view and the windows offer nothing that there is not.
WindowsBounded ==
    /\ Len(tree) <= made
    /\ \A p \in Pmus : p > made => pmuWindow[p] = NoPmu
    /\ \A p \in Pmus : pmuWindow[p] # NoPmu => pmuWindow[p] <= made
    /\ \A s \in Slots : radio[s] # "closed" => s[1] <= made
    /\ Len(items) = made =>
          /\ \A p \in DOMAIN tree : tree[p] <= channelsMade[items[p]]
          /\ \A s \in Slots : radio[s] # "closed" => s[2] <= channelsMade[items[s[1]]]

\* No input was chosen for a position before something was made for it.
NothingChosenAhead ==
    \A s \in Slots :
        \/ s[1] > made
        \/ s[1] \in DOMAIN items /\ items[s[1]] = s[1] /\ s[2] > channelsMade[s[1]]
        => chosenFor[s] = NoOne

\* The GUI thread leaves at most one map with a feed that is gone, and not for long.
OneDeleted ==
    /\ \A s \in Slots : override[s] = "deleted" => gui = "assign"
    /\ \A s, t \in Slots : override[s] = "deleted" /\ override[t] = "deleted" => s = t

\* A PDC that was started with its inputs in order keeps them in order.
StaysReady ==
    ready => /\ m_simPdc = "running"
             /\ \A s \in Slots : override[s] # "deleted"
             /\ Ready

\* A frame inserts the keys it finds missing in the order of the slots.
Present(p, c) == override[<<p, c>>] # "absent"

KeysInserted ==
    pdc # "none" =>
        /\ m_simPdc = "running"
        /\ framed => \A p \in DOMAIN run : \A c \in DOMAIN run[p] : Present(p, c)
        /\ pdc \in {"check", "use", "signal"} =>
              \A p \in DOMAIN run : \A c \in DOMAIN run[p] :
                  p < at[1] \/ (p = at[1] /\ (pdc = "signal" \/ c < at[2])) => Present(p, c)
        /\ pdc = "use" => at[1] \in DOMAIN run /\ at[2] \in DOMAIN run[at[1]] /\ Present(at[1], at[2])
        /\ pdc = "signal" => at[1] \in DOMAIN run

SimInv ==
    /\ TypeOK
    /\ ListsOrdered
    /\ WindowsBounded
    /\ NothingChosenAhead
    /\ OneDeleted
    /\ StaysReady
    /\ KeysInserted

\* A channel that stands where it was made to stand reads the input that was chosen for
\* it and no other, not one of the simulator before either: that is a channel before which
\* no other was removed, in a PMU before which no other was removed.  Nothing is said of
\* the rest.  RemovePmuAtIndex and RemoveItem erase from the lists but not from the feeds,
\* so that what comes after a removal, also what is appended later, reads the input of
\* another.
InPlace(s) ==
    /\ s[1] \in DOMAIN items /\ items[s[1]] = s[1]
    /\ s[2] \in DOMAIN channels[s[1]] /\ channels[s[1]][s[2]] = s[2]

InputsFollowChannels == \A s \in Slots : InPlace(s) => chosenFor[s] \in {NoOne, s}

\* PdcProc never reads through a feed that SetAnalogOverride has deleted, nor past the
\* end of a file, nor advances in an empty one, if the run began in order: every file at
\* one of its entries, and no window that shows "constant" over a file.
RunSafe == ready => crashed \notin {"dangling", "range", "empty"}

\* While PdcProc runs, the lists that it was started with are those of the configuration:
\* no edit reaches the one without the other.  (What the project view and the windows
\* show is another matter, they may be older than the run.)
RunningAsConfigured == pdc # "none" => run = Lists

\* The maps of the feeds, which PdcProc goes through without a lock, lose no key in a run,
\* and get none after its first frame, but for one case: an old project view offers a
\* channel that is gone, and its window inserts a key in the same step in which it ends
\* the program.
Keys == {s \in Slots : s[1] \in DOMAIN run /\ override[s] # "absent"}

MapsGrowInFirstFrame ==
    [][pdc # "none" /\ framed =>
         /\ Keys \subseteq Keys'
         /\ \A s \in Keys' \ Keys : Owner(s) = NoOne /\ crashed' = "index"]_vars

\* Unless something was removed, the window at a position edits the PMU that is there, no
\* commit writes the fields of one PMU into another, and no window looks for a PMU or a
\* channel that is not there.
WindowsInStep ==
    /\ \A p \in DOMAIN items : items[p] = p => pmuWindow[p] \in {NoPmu, p}
    /\ mixed => Len(items) < made
    /\ crashed = "index" =>
         Len(items) < made \/ \E p \in Pmus : Len(channels[p]) < channelsMade[p]
=============================================================================
