------------------------ MODULE GuestSoftwareProofs ------------------------
(***************************************************************************)
(* The software on the guest, how it is configured and how it is built.    *)
(* First the inductive invariant of GuestConfig, and from it that an edit  *)
(* of the preferences is lost in the known ways only and that the          *)
(* connection is the one the daemon names.  Then that of GuestBuild, and   *)
(* from it that the verdicts of a compile are true of the artefacts,       *)
(* whatever other agents do to the project between its commands.           *)
(***************************************************************************)
EXTENDS GuestConfig, GuestBuild, SequenceTheorems, TLAPS

USE DEF Net

-----------------------------------------------------------------------------
(* Lists of helpers *)

\* The first n of a list are a list of at most n, and all of a list that fits.
LEMMA LeadingFits ==
    ASSUME NEW s \in Seq(App), NEW n \in Nat
    PROVE  /\ Leading(s, n) \in Seq(App)
           /\ Len(Leading(s, n)) <= n
           /\ Len(s) <= n => Leading(s, n) = s
  <1> DEFINE m == IF Len(s) < n THEN Len(s) ELSE n
  <1>1. m \in Nat /\ m <= Len(s) /\ m <= n
    OBVIOUS
  <1>2. SubSeq(s, 1, m) \in Seq(App) /\ Len(SubSeq(s, 1, m)) = m
    BY <1>1
  <1>3. Len(s) <= n => SubSeq(s, 1, Len(s)) = s
    OBVIOUS
  <1>4. Len(s) <= n => m = Len(s)
    OBVIOUS
  <1> QED
    BY <1>1, <1>2, <1>3, <1>4 DEF Leading

\* A list with one row dropped is a shorter list.
LEMMA DroppedRow ==
    ASSUME NEW s \in Seq(App), NEW row \in 1..Len(s)
    PROVE  RemoveAt(s, row) \in Seq(App) /\ Len(RemoveAt(s, row)) <= Len(s)
  <1> DEFINE before == SubSeq(s, 1, row - 1)
             after  == SubSeq(s, row + 1, Len(s))
  <1>1. before \in Seq(App) /\ Len(before) = row - 1
    OBVIOUS
  <1>2. after \in Seq(App) /\ Len(after) = Len(s) - row
    OBVIOUS
  <1>3. RemoveAt(s, row) = before \o after
    BY DEF RemoveAt
  <1> HIDE DEF before, after
  <1>4. before \o after \in Seq(App) /\ Len(before \o after) = Len(before) + Len(after)
    BY <1>1, <1>2, ConcatProperties
  <1> QED
    BY <1>1, <1>2, <1>3, <1>4

\* Settings with another list of helpers are settings; a list with room takes one
\* more.
LEMMA ListInSettings ==
    ASSUME NEW p \in Settings, NEW l \in AppList
    PROVE  [p EXCEPT !.apps = l] \in Settings
  BY DEF Settings

LEMMA RoomForOne ==
    ASSUME NEW s \in Seq(App), Len(s) < MaxApps, NEW a \in App
    PROVE  Append(s, a) \in AppList
  <1>1. Append(s, a) \in Seq(App) /\ Len(Append(s, a)) = Len(s) + 1
    OBVIOUS
  <1>2. Len(s) + 1 <= MaxApps
    BY ConfigAssumption
  <1> QED
    BY <1>1, <1>2 DEF AppList

-----------------------------------------------------------------------------
(* Reading and writing *)

\* What is read is a setting of every kind; a file complete in its lines is read
\* alike by a program that starts and one that runs.
LEMMA Reading ==
    ASSUME NEW p \in Settings, NEW f \in PrefsFile
    PROVE  /\ Loaded(p, f) \in Settings
           /\ Complete(f) => Loaded(p, f) = Meaning(f)
           /\ Loaded(Meaning(f), f) = Meaning(f)
  <1>1. f.apps \in Seq(App) /\ Leading(f.apps, MaxApps) \in AppList
    BY ConfigAssumption, LeadingFits DEF PrefsFile, AppList
  <1>2. Defaults \in Settings
    BY ConfigAssumption DEF Defaults, Settings, AppList
  <1>3. Loaded(p, f) \in Settings
    BY <1>1 DEF Loaded, Settings, PrefsFile
  <1>4. Complete(f) => Loaded(p, f) = Meaning(f)
    BY <1>1 DEF Loaded, Meaning, Complete, Empty
  <1>5. Loaded(Meaning(f), f) = Meaning(f)
    BY <1>1 DEF Loaded, Meaning, Defaults
  <1> QED
    BY <1>3, <1>4, <1>5

\* What a starting program reads, line by line.
LEMMA MeaningByLine ==
    ASSUME NEW f \in PrefsFile
    PROVE  /\ Meaning(f) \in Settings
           /\ Meaning(f) = [ip   |-> IF f.ip = NoLine THEN NoAddr ELSE f.ip,
                            net  |-> IF f.net = NoLine THEN "OT" ELSE f.net,
                            apps |-> Leading(f.apps, MaxApps)]
  <1>1. Defaults \in Settings
    BY ConfigAssumption DEF Defaults, Settings, AppList
  <1>2. Leading(<<>>, MaxApps) = <<>>
    <2>1. <<>> \in Seq(App) /\ Len(<<>>) <= MaxApps
      BY ConfigAssumption
    <2> QED
      BY <2>1, ConfigAssumption, LeadingFits
  <1> QED
    BY <1>1, <1>2, Reading DEF Meaning, Loaded, Defaults, Empty

\* A copy that was written is a file that means that copy.
LEMMA Writing ==
    ASSUME NEW p \in Settings
    PROVE  p \in PrefsFile /\ Meaning(p) = p /\ p # Empty /\ Complete(p)
  <1>1. p \in PrefsFile /\ p.ip # NoLine /\ p.net # NoLine
    BY ConfigAssumption DEF Settings, PrefsFile, AppList
  <1>2. Leading(p.apps, MaxApps) = p.apps
    BY ConfigAssumption, LeadingFits DEF Settings, AppList
  <1>3. p = [ip |-> p.ip, net |-> p.net, apps |-> p.apps]
    BY DEF Settings
  <1>4. p # Empty /\ Complete(p)
    BY <1>1 DEF Empty, Complete
  <1>5. Meaning(p) = p
    BY <1>1, <1>2, <1>3, MeaningByLine
  <1> QED
    BY <1>1, <1>4, <1>5

LEMMA EmptyFile == Empty \in PrefsFile /\ Meaning(Empty) = Defaults /\ Defaults \in Settings
  <1>1. Empty \in PrefsFile
    BY DEF Empty, PrefsFile
  <1>2. Defaults \in Settings
    BY ConfigAssumption DEF Defaults, Settings, AppList
  <1> QED
    BY <1>1, <1>2 DEF Meaning, Loaded

\* A save keeps the account of what people asked for, if c is the change of the
\* settings that p is of the copy.
LEMMA Accounted ==
    ASSUME TypeOK, SettingsKept,
           NEW old \in Settings, NEW p \in Settings, NEW c \in Settings,
           Saves(p), Recorded(old, p, c), old = chosen => p = c
    PROVE  /\ file' \in PrefsFile
           /\ chosen' \in Settings /\ slipped' \in BOOLEAN
           /\ SettingsKept'
  <1>1. file' \in PrefsFile
    BY Writing, EmptyFile DEF Saves, TypeOK
  <1>2. chosen' \in Settings /\ slipped' \in BOOLEAN
    BY EmptyFile DEF Recorded, Asked, Slips, Keeps, TypeOK
  <1>3. CASE Done(p) /\ old = Meaning(file)
    <2>1. Meaning(file') = p
      BY <1>3, Writing DEF Done
    <2> QED
      BY <1>3, <2>1, <1>1, <1>2 DEF Recorded, Asked, SettingsKept, TypeOK
  <1>4. CASE ~(Done(p) /\ old = Meaning(file))
    BY <1>4, <1>1, <1>2 DEF Recorded, Slips, Keeps, SettingsKept, Done
  <1> QED
    BY <1>1, <1>2, <1>3, <1>4

-----------------------------------------------------------------------------
(* The invariant *)

\* It holds at the start.
LEMMA ConfigInit == Init => ConfigInv
  <1> SUFFICES ASSUME Init PROVE ConfigInv
    OBVIOUS
  <1>1. TypeOK
    BY EmptyFile, ConfigAssumption
       DEF Init, TypeOK, DaemonState, ConfigState, StackState, Stopped, Shut, NewStack
  <1>2. FreshCopies /\ SettingsKept
    BY EmptyFile DEF Init, FreshCopies, SettingsKept, Stopped, Shut
  <1>3. NamedAndRunning
    BY DEF Init, NamedAndRunning, Stopped
  <1> QED
    BY <1>1, <1>2, <1>3 DEF ConfigInv

\* ABNetInit leaves a stack, and one that came up runs as asked.
LEMMA BringingUp ==
    ASSUME NEW want \in Net, NEW s \in StackState, NEW t \in Brought(want, s)
    PROVE  /\ t \in StackState
           /\ t.ok => t.active \in Runs(t.want)
  <1> DEFINE u == [s EXCEPT !.want = want, !.ok = TRUE]
  <1>1. u \in StackState /\ u.want = want
    BY DEF StackState
  <1>2. CASE want = "Serial" \/ (want = "MacTCP" /\ machine.mactcp)
    <2>1. t = [u EXCEPT !.active = want]
      BY <1>2 DEF Brought
    <2> HIDE DEF u
    <2> QED
      BY <1>1, <2>1 DEF StackState, Runs
  <1>3. CASE ~(want = "Serial" \/ (want = "MacTCP" /\ machine.mactcp))
    <2>1. t = [u EXCEPT !.ok = FALSE] \/ t = [u EXCEPT !.active = "OT", !.ot = TRUE]
      BY <1>3 DEF Brought
    <2>2. want # "Serial"
      BY <1>3
    <2> HIDE DEF u
    <2> QED
      BY <1>1, <2>1, <2>2 DEF StackState, Runs
  <1> QED
    BY <1>2, <1>3

-----------------------------------------------------------------------------
(* Steps of the daemon that leave the file alone *)

\* Where the file is as it was and no copy becomes fresh unread.
LEMMA SameFile ==
    ASSUME ConfigInv,
           UNCHANGED <<machine, file, config, panel, chosen, slipped>>,
           daemon' \in DaemonState,
           daemon'.fresh => daemon'.prefs = Meaning(file),
           stack' \in StackState,
           conn' \in Link \union {NoConn},
           NamedAndRunning'
    PROVE  ConfigInv'
  BY DEF ConfigInv, TypeOK, FreshCopies, SettingsKept, Meaning, Loaded

LEMMA DaemonPollsKeeps == ConfigInv /\ DaemonPolls => ConfigInv'
  <1> SUFFICES ASSUME ConfigInv, DaemonPolls PROVE ConfigInv'
    OBVIOUS
  <1> DEFINE n == Meaning(file).net
  <1>1. Meaning(file) \in Settings
    BY MeaningByLine DEF ConfigInv, TypeOK
  <1>2. n \in Net
    BY <1>1 DEF Settings
  <1>3. daemon' = [daemon EXCEPT !.prefs.net = n]
    BY DEF DaemonPolls
  <1>4. daemon' \in DaemonState /\ daemon'.prefs.ip = daemon.prefs.ip
    BY <1>2, <1>3 DEF ConfigInv, TypeOK, DaemonState, Settings
  <1>5. daemon'.fresh => daemon'.prefs = Meaning(file)
    BY <1>1, <1>3 DEF ConfigInv, TypeOK, FreshCopies, DaemonState, Settings
  <1>6. Down(stack) \in StackState
    BY DEF ConfigInv, TypeOK, StackState, Down
  <1>7. stack' \in StackState /\ (stack'.ok => stack'.active \in Runs(stack'.want))
    BY <1>2, <1>6, BringingUp DEF DaemonPolls
  <1>8. NamedAndRunning'
    BY <1>3, <1>4, <1>7 DEF DaemonPolls, NamedAndRunning, ConfigInv, TypeOK, DaemonState
  <1> QED
    BY <1>4, <1>5, <1>7, <1>8, SameFile DEF DaemonPolls

LEMMA DaemonRereadsKeeps == ConfigInv /\ DaemonRereads => ConfigInv'
  <1> SUFFICES ASSUME ConfigInv, DaemonRereads PROVE ConfigInv'
    OBVIOUS
  <1> DEFINE p == Loaded(daemon.prefs, file)
  <1>1. /\ p \in Settings
        /\ Complete(file) => p = Meaning(file)
        /\ daemon.fresh => p = Meaning(file)
    BY Reading DEF ConfigInv, TypeOK, DaemonState, FreshCopies
  <1>2. daemon' = [daemon EXCEPT !.prefs = p, !.host = p.ip, !.fresh = @ \/ Complete(file)]
    BY DEF DaemonRereads
  <1>3. daemon' \in DaemonState
    BY <1>1, <1>2 DEF ConfigInv, TypeOK, DaemonState, Settings, Complete
  <1>4. daemon'.fresh => daemon'.prefs = Meaning(file)
    BY <1>1, <1>2 DEF ConfigInv, TypeOK, DaemonState
  <1>5. NamedAndRunning'
    BY <1>2 DEF DaemonRereads, NamedAndRunning, ConfigInv, TypeOK, DaemonState
  <1> QED
    BY <1>3, <1>4, <1>5, SameFile DEF DaemonRereads, ConfigInv, TypeOK

\* A step of the dispatcher or of the connection.
LEMMA ConnectionKeeps ==
    ConfigInv /\ (DaemonConnects \/ DaemonFallsBack \/ DaemonLosesConn) => ConfigInv'
  <1>0. ASSUME ConfigInv, NEW via \in Net, Open(via)
        PROVE  conn' \in Link \union {NoConn}
    <2>1. daemon.host \in Addr \union {NoAddr}
      BY <1>0 DEF ConfigInv, TypeOK, DaemonState
    <2> QED
      BY <1>0, <2>1 DEF Open, Link
  <1>1. ASSUME ConfigInv, DaemonConnects PROVE ConfigInv'
    <2>0. \E via \in Net : Open(via)
      BY <1>1 DEF DaemonConnects, OTConnects, SerialConnects, MacTCPConnects
    <2>1. stack' \in StackState /\ conn' \in Link \union {NoConn}
      BY <1>0, <1>1, <2>0 DEF DaemonConnects, OTConnects, SerialConnects, MacTCPConnects,
                  ConfigInv, TypeOK, StackState
    <2>2. NamedAndRunning'
      BY <1>1 DEF DaemonConnects, OTConnects, SerialConnects, MacTCPConnects, Open, Dials,
                  ConfigInv, TypeOK, StackState, NamedAndRunning
    <2> QED
      BY <1>1, <2>1, <2>2, SameFile DEF DaemonConnects, ConfigInv, TypeOK, FreshCopies
  <1>2. ASSUME ConfigInv, DaemonFallsBack PROVE ConfigInv'
    <2>0. stack' \in StackState
      BY <1>2 DEF DaemonFallsBack, ConfigInv, TypeOK, StackState
    <2>1. stack' \in StackState /\ conn' \in Link \union {NoConn}
      BY <1>0, <1>2, <2>0 DEF DaemonFallsBack, ConfigInv, TypeOK
    <2>2. stack'.ok = stack.ok /\ stack'.want = stack.want /\ stack'.active = "OT"
      BY <1>2 DEF DaemonFallsBack, ConfigInv, TypeOK, StackState
    <2>3. stack.ok => "OT" \in Runs(stack.want)
      BY <1>2 DEF DaemonFallsBack, Dials, ConfigInv, NamedAndRunning, Runs
    <2>4. NamedAndRunning'
      BY <1>2, <2>2, <2>3 DEF DaemonFallsBack, Open, Dials, ConfigInv, NamedAndRunning
    <2> QED
      BY <1>2, <2>1, <2>4, SameFile DEF DaemonFallsBack, ConfigInv, TypeOK, FreshCopies
  <1>3. ASSUME ConfigInv, DaemonLosesConn PROVE ConfigInv'
    <2>1. NamedAndRunning'
      BY <1>3 DEF DaemonLosesConn, ConfigInv, NamedAndRunning
    <2> QED
      BY <1>3, <2>1, SameFile DEF DaemonLosesConn, ConfigInv, TypeOK, FreshCopies
  <1> QED
    BY <1>1, <1>2, <1>3

LEMMA DaemonStopsKeeps == ConfigInv /\ DaemonStops => ConfigInv'
  <1> SUFFICES ASSUME ConfigInv, DaemonStops PROVE ConfigInv'
    OBVIOUS
  <1>1. daemon' \in DaemonState /\ ~daemon'.fresh /\ stack' \in StackState
    BY EmptyFile, ConfigAssumption DEF DaemonStops, Stopped, NewStack, DaemonState, StackState
  <1>2. NamedAndRunning'
    BY DEF DaemonStops, Stopped, NamedAndRunning
  <1> QED
    BY <1>1, <1>2, SameFile DEF DaemonStops

-----------------------------------------------------------------------------
(* Steps that write the file *)

\* What a step must establish when the daemon and its stack stay as they are.
LEMMA Assembled ==
    ASSUME ConfigInv,
           UNCHANGED <<machine, stack, conn>>,
           file' \in PrefsFile, panel' \in BOOLEAN,
           chosen' \in Settings, slipped' \in BOOLEAN, SettingsKept',
           daemon' \in DaemonState, config' \in ConfigState,
           daemon'.up = daemon.up, daemon'.prefs = daemon.prefs, daemon'.host = daemon.host,
           daemon'.fresh => daemon'.prefs = Meaning(file'),
           config'.fresh => config'.prefs = Meaning(file')
    PROVE  ConfigInv'
  <1>1. TypeOK'
    BY DEF ConfigInv, TypeOK
  <1>2. FreshCopies'
    BY DEF FreshCopies
  <1>3. NamedAndRunning'
    BY DEF ConfigInv, NamedAndRunning
  <1> QED
    BY <1>1, <1>2, <1>3 DEF ConfigInv

\* A copy goes stale when the file changes and is as good as before when it
\* does not.
LEMMA StaleDaemon ==
    ASSUME ConfigInv, daemon' = Stale(daemon)
    PROVE  /\ daemon' \in DaemonState
           /\ daemon'.up = daemon.up /\ daemon'.prefs = daemon.prefs /\ daemon'.host = daemon.host
           /\ daemon'.fresh => daemon'.prefs = Meaning(file')
  BY DEF Stale, ConfigInv, TypeOK, DaemonState, FreshCopies

LEMMA StaleConfig ==
    ASSUME ConfigInv, config' = Stale(config)
    PROVE  /\ config' \in ConfigState
           /\ config'.fresh => config'.prefs = Meaning(file')
  BY DEF Stale, ConfigInv, TypeOK, ConfigState, FreshCopies

LEMMA ListedIsBoolean == ConfigInv /\ Listed => panel' \in BOOLEAN
  BY DEF ConfigInv, TypeOK, Listed

LEMMA DaemonStartKeeps == ConfigInv /\ DaemonStart => ConfigInv'
  <1> SUFFICES ASSUME ConfigInv, DaemonStart PROVE ConfigInv'
    OBVIOUS
  <1>1. Meaning(file) \in Settings
    BY MeaningByLine DEF ConfigInv, TypeOK
  <1>2. file' \in PrefsFile /\ Meaning(file') = Meaning(file)
    <2>1. CASE file = Empty
      <3>1. file' \in {Defaults, Empty}
        BY <2>1 DEF DaemonStart, Saves
      <3>2. Meaning(Defaults) = Defaults /\ Defaults \in PrefsFile
        BY EmptyFile, Writing
      <3> QED
        BY <2>1, <3>1, <3>2, EmptyFile
    <2>2. CASE file # Empty
      BY <2>2 DEF DaemonStart, ConfigInv, TypeOK
    <2> QED
      BY <2>1, <2>2
  <1>3. panel' \in BOOLEAN /\ config' \in ConfigState
    BY ListedIsBoolean, StaleConfig DEF DaemonStart
  <1>4. PICK s \in Brought(Meaning(file).net, NewStack) :
          IF s.ok
          THEN /\ stack' = s
               /\ daemon' = [up |-> TRUE, prefs |-> Meaning(file), fresh |-> TRUE,
                             host |-> Meaning(file).ip]
          ELSE UNCHANGED <<stack, daemon>>
    BY DEF DaemonStart
  <1>5. s \in StackState /\ (s.ok => s.active \in Runs(s.want))
    <2>1. NewStack \in StackState /\ Meaning(file).net \in Net
      BY <1>1 DEF NewStack, StackState, Settings
    <2> QED
      BY <2>1, <1>4, BringingUp
  <1>6. stack' \in StackState /\ daemon' \in DaemonState
    <2>1. [up |-> TRUE, prefs |-> Meaning(file), fresh |-> TRUE, host |-> Meaning(file).ip]
             \in DaemonState
      <3>1. Meaning(file).ip \in Addr \union {NoAddr}
        BY <1>1 DEF Settings
      <3> QED
        BY <1>1, <3>1 DEF DaemonState
    <2>2. stack \in StackState /\ daemon \in DaemonState
      BY DEF ConfigInv, TypeOK
    <2> QED
      BY <1>4, <1>5, <2>1, <2>2
  <1>7. TypeOK'
    BY <1>2, <1>3, <1>6 DEF ConfigInv, TypeOK, DaemonStart
  <1>8. FreshCopies'
    BY <1>2, <1>4, StaleConfig DEF ConfigInv, FreshCopies, DaemonStart
  <1>9. SettingsKept'
    BY <1>2 DEF ConfigInv, SettingsKept, DaemonStart
  <1>10. NamedAndRunning'
    BY <1>4, <1>5 DEF ConfigInv, NamedAndRunning, DaemonStart
  <1> QED
    BY <1>7, <1>8, <1>9, <1>10 DEF ConfigInv

LEMMA DragsMonitorKeeps == ConfigInv /\ DragsMonitor => ConfigInv'
  <1> SUFFICES ASSUME ConfigInv, DragsMonitor PROVE ConfigInv'
    OBVIOUS
  <1> DEFINE p == daemon.prefs
  <1>1. p \in Settings /\ chosen \in Settings
    BY DEF ConfigInv, TypeOK, DaemonState
  <1>2. file' \in PrefsFile /\ chosen' \in Settings /\ slipped' \in BOOLEAN /\ SettingsKept'
    BY <1>1, Accounted DEF ConfigInv, DragsMonitor
  <1>3. daemon' = [daemon EXCEPT !.fresh = Done(p) \/ (@ /\ file' = file)]
    BY DEF DragsMonitor
  <1>4. /\ daemon' \in DaemonState
        /\ daemon'.up = daemon.up /\ daemon'.prefs = p /\ daemon'.host = daemon.host
    BY <1>3 DEF ConfigInv, TypeOK, DaemonState, Done
  <1>5. daemon'.fresh => p = Meaning(file')
    BY <1>1, <1>3, Writing DEF ConfigInv, TypeOK, DaemonState, Done, FreshCopies
  <1>6. config' \in ConfigState /\ (config'.fresh => config'.prefs = Meaning(file'))
    BY StaleConfig DEF DragsMonitor
  <1>7. panel' \in BOOLEAN
    BY ListedIsBoolean DEF DragsMonitor
  <1>8. UNCHANGED <<machine, stack, conn>>
    BY DEF DragsMonitor
  <1> QED
    BY <1>2, <1>4, <1>5, <1>6, <1>7, <1>8, Assembled

-----------------------------------------------------------------------------
(* The configuration program *)

\* A step of the configuration program that leaves everything else alone.
LEMMA ConfigAloneKeeps ==
    ASSUME ConfigInv,
           UNCHANGED <<machine, file, daemon, stack, conn, panel, chosen, slipped>>,
           config' \in ConfigState,
           config'.fresh => config'.prefs = Meaning(file)
    PROVE  ConfigInv'
  <1>1. TypeOK'
    BY DEF ConfigInv, TypeOK
  <1>2. FreshCopies' /\ SettingsKept'
    BY DEF ConfigInv, FreshCopies, SettingsKept, Meaning, Loaded
  <1>3. NamedAndRunning'
    BY DEF ConfigInv, NamedAndRunning
  <1> QED
    BY <1>1, <1>2, <1>3 DEF ConfigInv

LEMMA ConfigOpensKeeps == ConfigInv /\ ConfigOpens => ConfigInv'
  <1> SUFFICES ASSUME ConfigInv, ConfigOpens PROVE ConfigInv'
    OBVIOUS
  <1>1. Meaning(file) \in Settings
    BY MeaningByLine DEF ConfigInv, TypeOK
  <1>2. config' \in ConfigState /\ config'.prefs = Meaning(file)
    BY <1>1 DEF ConfigOpens, ConfigState
  <1> QED
    BY <1>2, ConfigAloneKeeps DEF ConfigOpens

LEMMA ConfigClosesKeeps == ConfigInv /\ ConfigCloses => ConfigInv'
  <1> SUFFICES ASSUME ConfigInv, ConfigCloses PROVE ConfigInv'
    OBVIOUS
  <1>1. config' \in ConfigState /\ ~config'.fresh
    BY EmptyFile DEF ConfigCloses, Shut, ConfigState
  <1> QED
    BY <1>1, ConfigAloneKeeps DEF ConfigCloses

\* The whole copy is written: what the accounts and the copy must be for it.
LEMMA ConfigWritesKeeps ==
    ASSUME ConfigInv, NEW p \in Settings, ConfigWrites(p),
           chosen' \in Settings, slipped' \in BOOLEAN, SettingsKept', file' \in PrefsFile,
           config' \in ConfigState,
           config'.fresh => config'.prefs = Meaning(file')
    PROVE  ConfigInv'
  <1>1. daemon' = Stale(daemon) /\ Listed /\ UNCHANGED <<machine, stack, conn>>
    BY DEF ConfigWrites
  <1>2. /\ daemon' \in DaemonState
        /\ daemon'.up = daemon.up /\ daemon'.prefs = daemon.prefs /\ daemon'.host = daemon.host
        /\ daemon'.fresh => daemon'.prefs = Meaning(file')
    BY <1>1, StaleDaemon
  <1>3. panel' \in BOOLEAN
    BY <1>1, ListedIsBoolean
  <1> QED
    BY <1>1, <1>2, <1>3, Assembled

\* The copy that was written is the copy that is held.
LEMMA HeldIsFresh ==
    ASSUME ConfigInv, NEW p \in Settings, config' = Held(p)
    PROVE  config' \in ConfigState /\ (config'.fresh => config'.prefs = Meaning(file'))
  BY Writing DEF Held, Done, ConfigInv, TypeOK, ConfigState

LEMMA ConfigSetsAddressKeeps == ConfigInv /\ ConfigSetsAddress => ConfigInv'
  <1> SUFFICES ASSUME ConfigInv, ConfigSetsAddress PROVE ConfigInv'
    OBVIOUS
  <1>1. PICK a \in Addr \union {NoAddr} :
          /\ ConfigWrites([config.prefs EXCEPT !.ip = a])
          /\ Recorded(config.prefs, [config.prefs EXCEPT !.ip = a], [chosen EXCEPT !.ip = a])
          /\ config' = Held([config.prefs EXCEPT !.ip = a])
    BY DEF ConfigSetsAddress
  <1> DEFINE p == [config.prefs EXCEPT !.ip = a]
             c == [chosen EXCEPT !.ip = a]
  <1>2. config.prefs \in Settings /\ chosen \in Settings
    BY DEF ConfigInv, TypeOK, ConfigState
  <1>3. p \in Settings /\ c \in Settings /\ (config.prefs = chosen => p = c)
    BY <1>2 DEF Settings
  <1> HIDE DEF p, c
  <1>4. ConfigWrites(p) /\ Saves(p) /\ Recorded(config.prefs, p, c) /\ config' = Held(p)
    BY <1>1 DEF p, c, ConfigWrites
  <1>5. file' \in PrefsFile /\ chosen' \in Settings /\ slipped' \in BOOLEAN /\ SettingsKept'
    BY <1>2, <1>3, <1>4, Accounted DEF ConfigInv
  <1> QED
    BY <1>3, <1>4, <1>5, HeldIsFresh, ConfigWritesKeeps

LEMMA ConfigPicksNetKeeps == ConfigInv /\ ConfigPicksNet => ConfigInv'
  <1> SUFFICES ASSUME ConfigInv, ConfigPicksNet PROVE ConfigInv'
    OBVIOUS
  <1>1. PICK n \in Net :
          LET p == [config.prefs EXCEPT !.net = n] IN
          /\ ConfigWrites(p)
          /\ IF Done(p) THEN Recorded(config.prefs, p, [chosen EXCEPT !.net = n]) ELSE Slips
          /\ config' = Held(p)
    BY DEF ConfigPicksNet
  <1> DEFINE p == [config.prefs EXCEPT !.net = n]
             c == [chosen EXCEPT !.net = n]
  <1>2. config.prefs \in Settings /\ chosen \in Settings
    BY DEF ConfigInv, TypeOK, ConfigState
  <1>3. p \in Settings /\ c \in Settings /\ (config.prefs = chosen => p = c)
    BY <1>2 DEF Settings
  <1>4. ConfigWrites(p) /\ (IF Done(p) THEN Recorded(config.prefs, p, c) ELSE Slips) /\ config' = Held(p)
    BY <1>1
  <1> HIDE DEF p, c
  <1>5. file' \in PrefsFile /\ chosen' \in Settings /\ slipped' \in BOOLEAN /\ SettingsKept'
    <2>1. CASE Done(p)
      BY <1>2, <1>3, <1>4, <2>1, Accounted DEF ConfigInv, ConfigWrites
    <2>2. CASE ~Done(p)
      <3>1. file' \in PrefsFile
        BY <1>3, <1>4, Writing, EmptyFile DEF ConfigWrites, Saves, ConfigInv, TypeOK
      <3> QED
        BY <1>4, <2>2, <3>1, EmptyFile DEF Slips, SettingsKept
    <2> QED
      BY <2>1, <2>2
  <1> QED
    BY <1>3, <1>4, <1>5, HeldIsFresh, ConfigWritesKeeps

LEMMA ConfigAddsHelperKeeps == ConfigInv /\ ConfigAddsHelper => ConfigInv'
  <1> SUFFICES ASSUME ConfigInv, ConfigAddsHelper PROVE ConfigInv'
    OBVIOUS
  <1> DEFINE old == config.prefs
  <1>1. PICK a \in App :
          LET p == [old EXCEPT !.apps = Append(@, a)] IN
          /\ IF Room
             THEN ConfigWrites(p) /\ Recorded(old, p, [chosen EXCEPT !.apps = Append(@, a)])
             ELSE UNCHANGED <<machine, file, daemon, stack, conn, panel, chosen, slipped>>
          /\ config' = [config EXCEPT !.prefs = Loaded(IF Room THEN p ELSE old, file'),
                                      !.fresh = Complete(file') \/ (@ /\ ~Room)]
    BY DEF ConfigAddsHelper
  <1> DEFINE p == [old EXCEPT !.apps = Append(@, a)]
             c == [chosen EXCEPT !.apps = Append(@, a)]
  <1>2. old \in Settings /\ chosen \in Settings /\ config.fresh \in BOOLEAN /\ config.open \in BOOLEAN
    BY DEF ConfigInv, TypeOK, ConfigState
  <1>3. CASE Room
    <2>1. p \in Settings /\ (old = chosen => p = c /\ c \in Settings)
      <3>1. old.apps \in Seq(App) /\ Len(old.apps) < MaxApps
        BY <1>2, <1>3 DEF Settings, AppList, Room
      <3>2. p \in Settings
        BY <1>2, <3>1, RoomForOne, ListInSettings
      <3> QED
        BY <3>2
    <2>2. Saves(p) /\ ConfigWrites(p) /\ Recorded(old, p, c)
      BY <1>1, <1>3 DEF ConfigWrites
    <2>3. config' = [config EXCEPT !.prefs = Loaded(p, file'), !.fresh = Complete(file')]
      <3>1. /\ (IF Room THEN p ELSE old) = p
            /\ (Complete(file') \/ (config.fresh /\ ~Room)) = Complete(file')
        BY <1>3 DEF Complete
      <3>2. config' = [config EXCEPT !.prefs = Loaded(IF Room THEN p ELSE old, file'),
                                     !.fresh = Complete(file') \/ (config.fresh /\ ~Room)]
        BY <1>1
      <3> QED
        BY <3>1, <3>2, Zenon
    <2> HIDE DEF p, c
    <2>4. file' \in PrefsFile /\ chosen' \in Settings /\ slipped' \in BOOLEAN /\ SettingsKept'
      <3>1. CASE old = chosen
        BY <1>2, <2>1, <2>2, <3>1, Accounted DEF ConfigInv
      <3>2. CASE old # chosen /\ ~slipped
        <4>1. old # Meaning(file)
          BY <3>2 DEF ConfigInv, SettingsKept
        <4>2. Recorded(old, p, chosen)
          BY <2>2, <4>1 DEF Recorded
        <4> QED
          BY <1>2, <2>1, <2>2, <3>2, <4>2, Accounted DEF ConfigInv
      <3>3. CASE slipped
        <4>1. file' \in PrefsFile
          BY <2>1, <2>2, Writing, EmptyFile DEF Saves, ConfigInv, TypeOK
        <4>2. chosen' \in Settings /\ slipped' = TRUE
          BY <1>2, <2>2, <3>3, EmptyFile
             DEF Recorded, Asked, Slips, Keeps, ConfigInv, TypeOK
        <4> QED
          BY <4>1, <4>2 DEF SettingsKept
      <3> QED
        BY <3>1, <3>2, <3>3
    <2>5. /\ config' \in ConfigState
          /\ config'.fresh => config'.prefs = Meaning(file')
      BY <1>2, <2>1, <2>3, <2>4, Reading DEF ConfigInv, TypeOK, ConfigState, Complete
    <2> QED
      BY <2>1, <2>2, <2>4, <2>5, ConfigWritesKeeps
  <1>4. CASE ~Room
    <2>1. UNCHANGED <<machine, file, daemon, stack, conn, panel, chosen, slipped>>
      BY <1>1, <1>4
    <2>2. config' = [config EXCEPT !.prefs = Loaded(old, file),
                                   !.fresh = Complete(file) \/ config.fresh]
      BY <1>1, <1>2, <1>4, <2>1
    <2>3. /\ Loaded(old, file) \in Settings
          /\ Complete(file) \/ config.fresh => Loaded(old, file) = Meaning(file)
      BY <1>2, Reading DEF ConfigInv, TypeOK, FreshCopies
    <2>4. config' \in ConfigState /\ (config'.fresh => config'.prefs = Meaning(file))
      BY <2>2, <2>3, <1>2 DEF ConfigInv, TypeOK, ConfigState, Complete
    <2> QED
      BY <2>1, <2>4, ConfigAloneKeeps
  <1> QED
    BY <1>3, <1>4

-----------------------------------------------------------------------------
(* The control panel, and editing by hand *)

\* An edit of the file in place: what the accounts must be for it.
LEMMA EditedKeeps ==
    ASSUME ConfigInv, Edited,
           file' \in PrefsFile, panel' \in BOOLEAN,
           chosen' \in Settings, slipped' \in BOOLEAN, SettingsKept'
    PROVE  ConfigInv'
  <1>1. daemon' = Stale(daemon) /\ config' = Stale(config) /\ UNCHANGED <<machine, stack, conn>>
    BY DEF Edited
  <1>2. /\ daemon' \in DaemonState
        /\ daemon'.up = daemon.up /\ daemon'.prefs = daemon.prefs /\ daemon'.host = daemon.host
        /\ daemon'.fresh => daemon'.prefs = Meaning(file')
    BY <1>1, StaleDaemon
  <1>3. config' \in ConfigState /\ (config'.fresh => config'.prefs = Meaning(file'))
    BY <1>1, StaleConfig
  <1> QED
    BY <1>1, <1>2, <1>3, Assembled

\* An edit that was asked for is kept when the file comes to mean it, and a lost
\* one is on record.
LEMMA AskedKeeps ==
    ASSUME ConfigInv, NEW c, file' \in PrefsFile, Asked(c),
           ~slipped => c = Meaning(file')
    PROVE  chosen' \in Settings /\ slipped' \in BOOLEAN /\ SettingsKept'
  <1>1. Meaning(file') \in Settings
    BY MeaningByLine
  <1>2. chosen' = IF slipped THEN Defaults ELSE c
    BY DEF Asked
  <1>3. slipped' = slipped /\ slipped \in BOOLEAN
    BY DEF Asked, ConfigInv, TypeOK
  <1>4. chosen' \in Settings
    BY <1>1, <1>2, EmptyFile
  <1>5. SettingsKept'
    BY <1>2, <1>3 DEF SettingsKept
  <1> QED
    BY <1>3, <1>4, <1>5

LEMMA SlipsKeeps ==
    ASSUME Slips
    PROVE  chosen' \in Settings /\ slipped' \in BOOLEAN /\ SettingsKept'
  BY EmptyFile DEF Slips, SettingsKept

\* While no edit is lost, a list that is read whole is the list people chose.
LEMMA ChosenList ==
    ASSUME ConfigInv, ~slipped, Len(file.apps) <= MaxApps
    PROVE  /\ chosen = Meaning(file)
           /\ chosen.apps = file.apps
  <1>1. chosen = Meaning(file) /\ file \in PrefsFile
    BY DEF ConfigInv, SettingsKept, TypeOK
  <1>2. Leading(file.apps, MaxApps) = file.apps
    BY <1>1, ConfigAssumption, LeadingFits DEF PrefsFile
  <1> QED
    BY <1>1, <1>2, MeaningByLine

\* Another list of helpers in the file is another list in what it means.
LEMMA MeaningOfList ==
    ASSUME ConfigInv, NEW l \in AppList
    PROVE  /\ [file EXCEPT !.apps = l] \in PrefsFile
           /\ Meaning([file EXCEPT !.apps = l]) = [Meaning(file) EXCEPT !.apps = l]
  <1> DEFINE f == [file EXCEPT !.apps = l]
  <1>1. file \in PrefsFile /\ l \in Seq(App)
    BY DEF ConfigInv, TypeOK, AppList
  <1>2. f \in PrefsFile /\ f.ip = file.ip /\ f.net = file.net /\ f.apps = l
    BY <1>1 DEF PrefsFile
  <1>3. Leading(l, MaxApps) = l
    BY ConfigAssumption, LeadingFits DEF AppList
  <1> HIDE DEF f
  <1>4. Meaning(f) = [ip |-> IF file.ip = NoLine THEN NoAddr ELSE file.ip,
                      net |-> IF file.net = NoLine THEN "OT" ELSE file.net,
                      apps |-> l]
    BY <1>2, <1>3, MeaningByLine
  <1>5. Meaning(f) = [Meaning(file) EXCEPT !.apps = l]
    BY <1>1, <1>4, MeaningByLine
  <1> QED
    BY <1>2, <1>5 DEF f

LEMMA PanelShowsKeeps == ConfigInv /\ PanelShows => ConfigInv'
  <1> SUFFICES ASSUME ConfigInv, PanelShows PROVE ConfigInv'
    OBVIOUS
  <1>1. TypeOK'
    BY DEF ConfigInv, TypeOK, PanelShows
  <1>2. FreshCopies' /\ SettingsKept'
    BY DEF ConfigInv, FreshCopies, SettingsKept, Meaning, Loaded, PanelShows
  <1>3. NamedAndRunning'
    BY DEF ConfigInv, NamedAndRunning, PanelShows
  <1> QED
    BY <1>1, <1>2, <1>3 DEF ConfigInv

LEMMA PanelAddsKeeps == ConfigInv /\ PanelAdds => ConfigInv'
  <1> SUFFICES ASSUME ConfigInv, PanelAdds PROVE ConfigInv'
    OBVIOUS
  <1>1. PICK a \in App :
          /\ file' = [file EXCEPT !.apps = Append(@, a)]
          /\ IF Len(file.apps) < MaxApps
             THEN Asked([chosen EXCEPT !.apps = Append(@, a)]) ELSE Slips
          /\ panel' = TRUE
          /\ Edited
    BY DEF PanelAdds
  <1>2. file \in PrefsFile /\ file.apps \in Seq(App)
    BY DEF ConfigInv, TypeOK, PrefsFile
  <1>3. file' \in PrefsFile
    <2>1. Append(file.apps, a) \in Seq(App)
      BY <1>2
    <2> QED
      BY <1>1, <1>2, <2>1 DEF PrefsFile
  <1>4. chosen' \in Settings /\ slipped' \in BOOLEAN /\ SettingsKept'
    <2>1. CASE Len(file.apps) < MaxApps
      <3> DEFINE l == Append(file.apps, a)
                 c == [chosen EXCEPT !.apps = Append(@, a)]
      <3>1. l \in AppList
        BY <1>2, <2>1, RoomForOne
      <3>2. ~slipped => c = Meaning(file')
        <4> SUFFICES ASSUME ~slipped PROVE c = Meaning(file')
          OBVIOUS
        <4>1. Len(file.apps) <= MaxApps
          BY <1>2, <2>1, ConfigAssumption
        <4>2. chosen = Meaning(file) /\ chosen.apps = file.apps
          BY <4>1, ChosenList
        <4>3. file' = [file EXCEPT !.apps = l]
          BY <1>1
        <4>4. c = [Meaning(file) EXCEPT !.apps = l]
          BY <4>2
        <4> HIDE DEF l, c
        <4> QED
          BY <3>1, <4>3, <4>4, MeaningOfList
      <3>3. Asked(c)
        BY <1>1, <2>1
      <3> HIDE DEF c
      <3> QED
        BY <1>3, <3>2, <3>3, AskedKeeps
    <2>2. CASE ~(Len(file.apps) < MaxApps)
      BY <1>1, <2>2, SlipsKeeps
    <2> QED
      BY <2>1, <2>2
  <1>5. Edited /\ panel' \in BOOLEAN
    BY <1>1
  <1> QED
    BY <1>3, <1>4, <1>5, EditedKeeps

LEMMA PanelRemovesKeeps == ConfigInv /\ PanelRemoves => ConfigInv'
  <1> SUFFICES ASSUME ConfigInv, PanelRemoves PROVE ConfigInv'
    OBVIOUS
  <1>1. PICK row \in Selectable :
          /\ file' = [file EXCEPT !.apps = Without(Leading(@, Fits), row)]
          /\ Removed(row)
          /\ panel' = TRUE
          /\ Edited
    BY DEF PanelRemoves
  <1> DEFINE head == Leading(file.apps, Fits)
             l == Without(head, row)
  <1>2. row \in 1..Fits /\ (panel => row <= Len(file.apps))
    BY DEF Selectable
  <1>3. file \in PrefsFile /\ file.apps \in Seq(App)
    BY DEF ConfigInv, TypeOK, PrefsFile
  <1>4. head \in Seq(App) /\ (Len(file.apps) <= Fits => head = file.apps)
    BY <1>3, ConfigAssumption, LeadingFits
  <1> HIDE DEF head
  <1>5. l \in Seq(App) /\ Len(l) <= Len(head)
    <2>1. CASE row <= Len(head)
      <3>1. row \in 1..Len(head)
        BY <1>2, <1>4, <2>1, ConfigAssumption
      <3> QED
        BY <1>4, <2>1, <3>1, DroppedRow DEF Without
    <2>2. CASE ~(row <= Len(head))
      BY <1>4, <2>2 DEF Without
    <2> QED
      BY <2>1, <2>2
  <1>6. file' = [file EXCEPT !.apps = l]
    BY <1>1 DEF head
  <1>7. file' \in PrefsFile
    <2> HIDE DEF l
    <2> QED
      BY <1>3, <1>5, <1>6 DEF PrefsFile
  <1>8. chosen' \in Settings /\ slipped' \in BOOLEAN /\ SettingsKept'
    <2>1. CASE panel /\ Len(file.apps) <= Fits /\ Len(file.apps) <= MaxApps
      <3> DEFINE c == [chosen EXCEPT !.apps = RemoveAt(@, row)]
      <3>1. Asked(c)
        BY <1>1, <2>1 DEF Removed
      <3>2. head = file.apps /\ l = RemoveAt(file.apps, row)
        BY <1>2, <1>4, <2>1 DEF Without
      <3>3. l \in AppList
        <4> HIDE DEF l
        <4>1. Len(l) <= MaxApps
          <5>1. Len(l) \in Nat /\ Len(file.apps) \in Nat
            BY <1>3, <1>5
          <5> QED
            BY <1>5, <2>1, <3>2, <5>1, ConfigAssumption
        <4> QED
          BY <1>5, <4>1 DEF AppList
      <3>4. ~slipped => c = Meaning(file')
        <4> SUFFICES ASSUME ~slipped PROVE c = Meaning(file')
          OBVIOUS
        <4>1. chosen = Meaning(file) /\ chosen.apps = file.apps
          BY <2>1, ChosenList
        <4>2. c = [Meaning(file) EXCEPT !.apps = l]
          BY <3>2, <4>1
        <4> HIDE DEF l, c
        <4> QED
          BY <1>6, <3>3, <4>2, MeaningOfList
      <3> HIDE DEF c
      <3> QED
        BY <1>7, <3>1, <3>4, AskedKeeps
    <2>2. CASE ~(panel /\ Len(file.apps) <= Fits /\ Len(file.apps) <= MaxApps)
      BY <1>1, <2>2, SlipsKeeps DEF Removed
    <2> QED
      BY <2>1, <2>2
  <1>9. Edited /\ panel' \in BOOLEAN
    BY <1>1
  <1> QED
    BY <1>7, <1>8, <1>9, EditedKeeps

LEMMA EditByHandKeeps == ConfigInv /\ EditByHand => ConfigInv'
  <1> SUFFICES ASSUME ConfigInv, EditByHand PROVE ConfigInv'
    OBVIOUS
  <1>1. file' \in PrefsFile
    BY DEF EditByHand, ConfigInv, TypeOK, PrefsFile
  <1>2. Asked(Meaning(file')) /\ Edited
    BY DEF EditByHand
  <1>3. panel' \in BOOLEAN
    BY ListedIsBoolean DEF EditByHand
  <1>4. chosen' \in Settings /\ slipped' \in BOOLEAN /\ SettingsKept'
    BY <1>1, <1>2, AskedKeeps
  <1> QED
    BY <1>1, <1>2, <1>3, <1>4, EditedKeeps

-----------------------------------------------------------------------------
(* The theorems *)

\* No step of the daemon, of a program or of a person breaks the invariant.
LEMMA ConfigStep == ConfigInv /\ [Next]_vars => ConfigInv'
  <1> SUFFICES ASSUME ConfigInv, [Next]_vars PROVE ConfigInv'
    OBVIOUS
  <1>1. CASE DaemonStart
    BY <1>1, DaemonStartKeeps
  <1>2. CASE DaemonPolls
    BY <1>2, DaemonPollsKeeps
  <1>3. CASE DaemonRereads
    BY <1>3, DaemonRereadsKeeps
  <1>4. CASE DaemonConnects \/ DaemonFallsBack \/ DaemonLosesConn
    BY <1>4, ConnectionKeeps
  <1>5. CASE DaemonStops
    BY <1>5, DaemonStopsKeeps
  <1>6. CASE People
    BY <1>6, DragsMonitorKeeps, ConfigOpensKeeps, ConfigClosesKeeps, ConfigSetsAddressKeeps,
       ConfigPicksNetKeeps, ConfigAddsHelperKeeps, PanelShowsKeeps, PanelAddsKeeps,
       PanelRemovesKeeps, EditByHandKeeps DEF People
  <1>7. CASE UNCHANGED vars
    BY <1>7 DEF vars, ConfigInv, TypeOK, FreshCopies, SettingsKept, NamedAndRunning,
                Meaning, Loaded, Runs
  <1> QED
    BY <1>1, <1>2, <1>3, <1>4, <1>5, <1>6, <1>7 DEF Next

\* The invariant holds of every behaviour of the preferences and the stack.
THEOREM ConfigInvariant == Spec => []ConfigInv
  <1> QED
    BY ConfigInit, ConfigStep, PTL DEF Spec

\* Every variable keeps its type.
THEOREM ConfigTypeCorrect == Spec => []TypeOK
  <1>1. ConfigInv => TypeOK
    BY DEF ConfigInv
  <1> QED
    BY <1>1, ConfigInvariant, PTL

\* A program that has read the file since another changed it, and whose own
\* changes were written, holds what a program started now would read.
THEOREM CopiesAreFresh == Spec => []FreshCopies
  <1>1. ConfigInv => FreshCopies
    BY DEF ConfigInv
  <1> QED
    BY <1>1, ConfigInvariant, PTL

\* However the daemon, the configuration program, the panel and an editor take
\* turns at the file, it says what people asked for unless an edit was lost in
\* one of the ways on record.
THEOREM EditsKept == Spec => []SettingsKept
  <1>1. ConfigInv => SettingsKept
    BY DEF ConfigInv
  <1> QED
    BY <1>1, ConfigInvariant, PTL

\* Over start, fallback, hot swap and reconnection, the connection is on the
\* active transport, which has been brought up, and leads to the address named.
THEOREM ConnectionIsNamed == Spec => []NamedAndRunning
  <1>1. ConfigInv => NamedAndRunning
    BY DEF ConfigInv
  <1> QED
    BY <1>1, ConfigInvariant, PTL

-----------------------------------------------------------------------------
(* GuestBuild: what is true of an agent n that meets the guest g *)

Outside == {"idle", "echo"}     \* not within a compile or build

\* No write is newer than the source that is there, and none is taken back.
Behind(n, g) ==
    \A s \in Source : n.landed[s] <= g.src[s] /\ n.from[s] <= g.src[s]

\* No older than the agent's last write and than its call.
Current(n, s, v) == v >= n.landed[s] /\ v >= n.from[s]

\* The sources whose objects this call has deleted.
Cleared(n) ==
    CASE n.pc \in Outside -> {}
      [] n.pc = "delete"  -> Source \ (n.todo \union {n.source})
      [] OTHER            -> Source \ n.todo

\* Unless a Delete was lost: an object the call has deleted is absent or current, and so is the
\* application once it has been unlinked.
InFlight(n, g) ==
    ~n.undeleted =>
        /\ n.tool = "build" => \A s \in Cleared(n) : g.obj[s] = 0 \/ Current(n, s, g.obj[s])
        /\ n.tool = "compile" /\ n.pc \in {"tool", "catenate", "exists"}
            => g.obj[n.source] = 0 \/ Current(n, n.source, g.obj[n.source])
        /\ n.pc \in {"link", "linkdiag", "linked"}
            => g.app = Nowhere \/ \A s \in Source : Current(n, s, g.app[s])
        /\ n.pc \in {"rez", "rezdiag"} => \A s \in Source : Current(n, s, n.made[s])

\* A compile judges one object, and a build links when no source is left.
Ordered(n) ==
    /\ n.tool = "compile" /\ n.pc \in {"delete", "tool", "catenate", "exists"} => n.judged = {}
    /\ n.pc \in {"unlink", "link", "linkdiag", "linked", "rez", "rezdiag"} =>
        n.tool = "build" /\ n.todo = {} /\ ~n.failed
    /\ n.pc \in {"alive", "folder"} => n.tool = "compile"
    /\ n.pc = "echo" => n.echoes < MaxEchoes

\* Why an object can be missing although nothing went wrong.
Cause(n) == n.truly \/ \E s \in n.judged : n.from[s] \notin Good

\* A call that nothing has disturbed works on the guest it began with.
Calm(n, g) ==
    n.pc \notin Outside /\ n.upset = {} =>
        /\ g.toolserver /\ g.src = n.from /\ n.truly = ~g.folder
        /\ n.failed => Cause(n)
        /\ n.pc \in {"alive", "folder"} => Cause(n)
        /\ n.pc \in {"catenate", "exists"} /\ g.folder /\ n.from[n.source] \in Good => g.obj[n.source] # 0

\* What a verdict between two calls says of the last one.
Succeeded(n) ==
    n.pc \in Outside /\ Ending(n.term) = "recompiled_ok" /\ ~n.undeleted
        => \A s \in n.judged : Current(n, s, n.made[s])

Failed(n) ==
    n.pc \in Outside /\ Ending(n.term) = "recompiled_failed" /\ n.upset = {} /\ (n.tool = "compile" \/ n.failed)
        => Cause(n)

FolderAsked(n, g) ==
    /\ n.missing => n.truly \/ "folder" \in n.upset
    /\ n.pc = "folder" /\ ~g.toolserver => "folder" \in n.upset

AgentInv(n, g) ==
    Behind(n, g) /\ InFlight(n, g) /\ Ordered(n) /\ Calm(n, g)
    /\ Succeeded(n) /\ Failed(n) /\ FolderAsked(n, g)

BuildInd ==
    /\ BuildTypeOK
    /\ \A s \in Source : guest.src[s] <= newest
    /\ \A a \in Agent : AgentInv(agent[a], guest)

-----------------------------------------------------------------------------
(* A request, and what it leaves to the others *)

Charged(m, f, st) == IF f.fault = 0 THEN m ELSE [m EXCEPT !.upset = @ \union st]

\* The request of a with fate f has made the guest g and the agent m.
Handled(a, f, g, m) ==
    /\ guest' = g /\ newest' = newest /\ faults' = faults + f.fault
    /\ agent' = [Disturbed(a, g # guest) EXCEPT ![a] = Charged(m, f, Stage(a))]

\* What a step may do to the guest.
Moves(g, h) ==
    /\ \A s \in Source : h.src[s] >= g.src[s] /\ h.obj[s] \in {0, g.obj[s], g.src[s]}
    /\ h.app \in {g.app, Nowhere} \/ (h.app = g.obj /\ \A s \in Source : g.obj[s] # 0)

\* What may become of a request.
LEMMA FateIs ==
    ASSUME BuildTypeOK, NEW there \in BOOLEAN, NEW f \in Fates(there)
    PROVE  /\ f \in Fate /\ faults + f.fault \in 0..MaxFaults
           /\ f.fault = 0 /\ there => f.ran /\ f.answered
           /\ f.answered => f.ran /\ there /\ f.fault = 0
           /\ ~there => ~f.ran
  BY BuildAssumption DEF Fates, Fate, BuildTypeOK, BuildAssumption

\* A fault is noted, and nothing else.
LEMMA ChargedIs ==
    ASSUME NEW m \in AgentState, NEW f \in Fate, NEW st \in SUBSET {"step", "folder"}
    PROVE  /\ Charged(m, f, st) \in AgentState
           /\ Charged(m, f, st) = [m EXCEPT !.upset = IF f.fault = 0 THEN m.upset ELSE m.upset \union st]
  <1>1. CASE f.fault = 0
    BY <1>1 DEF Charged, AgentState
  <1>2. CASE f.fault # 0
    BY <1>2 DEF Charged, AgentState
  <1> QED
    BY <1>1, <1>2

\* The others lose nothing by what the guest may do, and are told of it.
LEMMA OthersKeep ==
    ASSUME NEW n \in AgentState, NEW g \in GuestState, NEW h \in GuestState,
           NEW u \in SUBSET {"step", "folder"}, NEW st \in SUBSET {"step", "folder"},
           AgentInv(n, g), Moves(g, h), g.toolserver => h.toolserver,
           u = n.upset \/ u = n.upset \union st, st # {},
           g = h \/ n.pc = "idle" \/ u = n.upset \union st
    PROVE  AgentInv([n EXCEPT !.upset = u], h)
  <1> DEFINE m == [n EXCEPT !.upset = u]
  <1>1. /\ m.pc = n.pc /\ m.tool = n.tool /\ m.source = n.source /\ m.todo = n.todo /\ m.failed = n.failed
        /\ m.echoes = n.echoes /\ m.missing = n.missing /\ m.term = n.term /\ m.from = n.from
        /\ m.landed = n.landed /\ m.judged = n.judged /\ m.made = n.made /\ m.undeleted = n.undeleted
        /\ m.truly = n.truly /\ m.upset = u
    BY DEF AgentState
  <1> HIDE DEF m
  <1>2. \A s \in Source : /\ n.landed[s] \in Nat /\ n.from[s] \in Nat /\ g.src[s] \in Nat /\ h.src[s] \in Nat
                          /\ g.obj[s] \in Nat /\ h.obj[s] \in Nat /\ g.app[s] \in Nat /\ h.app[s] \in Nat
    BY BuildAssumption DEF AgentState, GuestState, Version, BuildAssumption
  <1>3. Behind(m, h)
    BY <1>1, <1>2 DEF AgentInv, Behind, Moves
  <1>4. \A s \in Source : Current(n, s, g.src[s])
    BY <1>2 DEF AgentInv, Behind, Current
  <1>5. \A s \in Source : (g.obj[s] = 0 \/ Current(n, s, g.obj[s])) => (h.obj[s] = 0 \/ Current(n, s, h.obj[s]))
    BY <1>4 DEF Moves
  <1>6. InFlight(m, h)
    <2>1. SUFFICES ASSUME ~n.undeleted PROVE InFlight(m, h)
      BY <1>1 DEF InFlight
    <2>2. n.tool = "build" => \A s \in Cleared(n) : h.obj[s] = 0 \/ Current(n, s, h.obj[s])
      BY <2>1, <1>5 DEF AgentInv, InFlight, Cleared, Outside
    <2>3. n.tool = "compile" /\ n.pc \in {"tool", "catenate", "exists"}
            => h.obj[n.source] = 0 \/ Current(n, n.source, h.obj[n.source])
      BY <2>1, <1>5 DEF AgentInv, InFlight, AgentState
    <2>4. ASSUME n.pc \in {"link", "linkdiag", "linked"}
          PROVE  h.app = Nowhere \/ \A s \in Source : Current(n, s, h.app[s])
      <3>1. n.tool = "build" /\ Cleared(n) = Source
        BY <2>4 DEF AgentInv, Ordered, Cleared, Outside
      <3>2. \A s \in Source : g.obj[s] = 0 \/ Current(n, s, g.obj[s])
        BY <2>1, <3>1 DEF AgentInv, InFlight
      <3>3. g.app = Nowhere \/ \A s \in Source : Current(n, s, g.app[s])
        BY <2>1, <2>4 DEF AgentInv, InFlight
      <3> QED
        BY <3>2, <3>3 DEF Moves
    <2>5. n.pc \in {"rez", "rezdiag"} => \A s \in Source : Current(n, s, n.made[s])
      BY <2>1 DEF AgentInv, InFlight
    <2>6. Cleared(m) = Cleared(n) /\ \A s, v : Current(m, s, v) <=> Current(n, s, v)
      BY <1>1 DEF Cleared, Current
    <2> QED
      BY <1>1, <2>2, <2>3, <2>4, <2>5, <2>6 DEF InFlight
  <1>7. Ordered(m)
    BY <1>1 DEF AgentInv, Ordered
  <1>8. Cause(m) <=> Cause(n)
    BY <1>1 DEF Cause
  <1>9. Calm(m, h)
    BY <1>1, <1>8 DEF AgentInv, Calm, Outside
  <1>10. Succeeded(m)
    BY <1>1 DEF AgentInv, Succeeded, Current
  <1>11. Failed(m)
    BY <1>1, <1>8 DEF AgentInv, Failed
  <1>12. FolderAsked(m, h)
    BY <1>1 DEF AgentInv, FolderAsked
  <1> QED
    BY <1>3, <1>6, <1>7, <1>9, <1>10, <1>11, <1>12 DEF AgentInv, m
\* What a request leaves of the invariant, by what it makes of the guest and of its own agent.
LEMMA RequestKeeps ==
    ASSUME BuildInd, NEW a \in Agent, NEW there \in BOOLEAN, NEW f \in Fates(there),
           NEW g \in GuestState, NEW m \in AgentState,
           Handled(a, f, g, m), Moves(guest, g), guest.toolserver => g.toolserver,
           \A s \in Source : g.src[s] <= newest,
           m.builds <= MaxBuilds[a], m.upset = agent[a].upset,
           Behind(m, g), InFlight(m, g), Ordered(m), Succeeded(m),
           f.fault = 0 => Calm(m, g) /\ Failed(m),
           FolderAsked(Charged(m, f, Stage(a)), g)
    PROVE  BuildInd'
  <1> DEFINE r == Charged(m, f, Stage(a))
  <1>1. BuildTypeOK /\ \A o \in Agent : agent[o] \in AgentState /\ AgentInv(agent[o], guest)
    BY DEF BuildInd, BuildTypeOK
  <1>2. guest \in GuestState /\ guest' = g /\ newest' = newest /\ faults' \in 0..MaxFaults /\ f \in Fate
    BY <1>1, FateIs DEF Handled, BuildTypeOK
  <1>3. \A o \in Agent : Stage(o) \in SUBSET {"step", "folder"} /\ Stage(o) # {}
    BY DEF Stage
  <1> DEFINE u == IF f.fault = 0 THEN m.upset ELSE m.upset \union Stage(a)
  <1>4. r \in AgentState /\ r = [m EXCEPT !.upset = u]
    BY <1>2, <1>3, ChargedIs
  <1>5. \A o \in Agent : agent'[o] = IF o = a THEN r ELSE Disturbed(a, g # guest)[o]
    BY DEF Handled, Disturbed
  <1>6. DOMAIN agent' = Agent /\ agent' = [o \in Agent |-> agent'[o]]
    BY DEF Handled, Disturbed
  <1>7. ASSUME NEW o \in Agent, o # a
        PROVE  agent'[o] \in AgentState /\ AgentInv(agent'[o], g) /\ agent'[o].builds = agent[o].builds
    <2>1. CASE g # guest /\ agent[o].pc # "idle"
      <3>1. PICK v \in SUBSET {"step", "folder"} : v = agent[o].upset \union Stage(o)
        BY <1>1, <1>3 DEF AgentState
      <3>2. agent'[o] = [agent[o] EXCEPT !.upset = v]
        BY <1>5, <1>7, <2>1, <3>1 DEF Disturbed
      <3>3. AgentInv([agent[o] EXCEPT !.upset = v], g)
        BY <1>1, <1>2, <1>3, <3>1, OthersKeep
      <3> QED
        BY <1>1, <3>2, <3>3 DEF AgentState
    <2>2. CASE ~(g # guest /\ agent[o].pc # "idle")
      <3>1. agent'[o] = agent[o]
        BY <1>5, <1>7, <2>2 DEF Disturbed
      <3>2. agent[o].upset \in SUBSET {"step", "folder"} /\ agent[o] = [agent[o] EXCEPT !.upset = agent[o].upset]
        BY <1>1 DEF AgentState
      <3>3. AgentInv([agent[o] EXCEPT !.upset = agent[o].upset], g)
        BY <1>1, <1>2, <1>3, <2>2, <3>2, OthersKeep
      <3> QED
        BY <1>1, <3>1, <3>2, <3>3
    <2> QED
      BY <2>1, <2>2
  <1>8. /\ r.pc = m.pc /\ r.tool = m.tool /\ r.source = m.source /\ r.todo = m.todo /\ r.failed = m.failed
        /\ r.echoes = m.echoes /\ r.missing = m.missing /\ r.term = m.term /\ r.from = m.from
        /\ r.landed = m.landed /\ r.judged = m.judged /\ r.made = m.made /\ r.undeleted = m.undeleted
        /\ r.truly = m.truly /\ r.upset = u /\ r.builds = m.builds
    BY <1>4 DEF AgentState
  <1>13. f.fault # 0 => u # {}
    BY <1>3
  <1>14. f.fault = 0 => u = agent[a].upset
    OBVIOUS
  <1> HIDE DEF r, u
  <1>9. AgentInv(r, g)
    <2>1. Behind(r, g) /\ Ordered(r)
      BY <1>8 DEF Behind, Ordered
    <2>2. Cleared(r) = Cleared(m) /\ (Cause(r) <=> Cause(m)) /\ \A s, v : Current(r, s, v) <=> Current(m, s, v)
      BY <1>8 DEF Cleared, Cause, Current
    <2>3. InFlight(r, g)
      BY <1>8, <2>2 DEF InFlight
    <2>4. Succeeded(r)
      BY <1>8, <2>2 DEF Succeeded
    <2>6. Calm(r, g)
      BY <1>8, <1>13, <1>14, <2>2 DEF Calm
    <2>7. Failed(r)
      BY <1>8, <1>13, <1>14, <2>2 DEF Failed
    <2> QED
      BY <2>1, <2>3, <2>4, <2>6, <2>7 DEF AgentInv, r
  <1>10. \A o \in Agent : agent'[o] \in AgentState /\ AgentInv(agent'[o], g) /\ agent'[o].builds <= MaxBuilds[o]
    BY <1>1, <1>4, <1>5, <1>7, <1>8, <1>9 DEF BuildTypeOK
  <1>11. BuildTypeOK'
    BY <1>1, <1>2, <1>6, <1>10 DEF BuildTypeOK
  <1> QED
    BY <1>2, <1>10, <1>11 DEF BuildInd

\* A request that asks for no folder.
LEMMA QuietKeeps ==
    ASSUME BuildInd, NEW a \in Agent, NEW there \in BOOLEAN, NEW f \in Fates(there),
           NEW g \in GuestState, NEW m \in AgentState,
           Handled(a, f, g, m), Moves(guest, g), guest.toolserver => g.toolserver,
           \A s \in Source : g.src[s] <= newest,
           m.builds <= MaxBuilds[a], m.upset = agent[a].upset,
           Behind(m, g), InFlight(m, g), Ordered(m), Succeeded(m),
           f.fault = 0 => Calm(m, g) /\ Failed(m),
           FolderAsked(m, g)
    PROVE  BuildInd'
  <1>1. f \in Fate /\ Stage(a) \in SUBSET {"step", "folder"}
    BY FateIs DEF BuildInd, Stage
  <1>2. Charged(m, f, Stage(a)) = [m EXCEPT !.upset = IF f.fault = 0 THEN m.upset ELSE m.upset \union Stage(a)]
    BY <1>1, ChargedIs
  <1>3. FolderAsked(Charged(m, f, Stage(a)), g)
    BY <1>2 DEF FolderAsked, AgentState
  <1> QED
    BY <1>3, RequestKeeps

-----------------------------------------------------------------------------
(* The steps of a compile *)

\* An agent of the invariant, taken by itself.
LEMMA AgentIs ==
    ASSUME BuildInd, NEW a \in Agent
    PROVE  /\ agent[a] \in AgentState /\ AgentInv(agent[a], guest) /\ agent[a].builds <= MaxBuilds[a]
           /\ guest \in GuestState /\ guest.toolserver \in BOOLEAN /\ Moves(guest, guest)
           /\ MaxBuilds[a] \in Nat /\ BuildTypeOK
  BY BuildAssumption DEF BuildInd, BuildTypeOK, Moves, GuestState, BuildAssumption

\* The Delete before the compiler.
LEMMA DeleteKeeps ==
    ASSUME BuildInd, NEW a \in Agent, Delete(a)
    PROVE  BuildInd'
  <1> DEFINE n == agent[a]
             s == n.source
             d == [guest EXCEPT !.obj[s] = 0, !.err["compile"] = IF n.tool = "compile" THEN "none" ELSE @]
  <1>1. PICK f \in Fates(guest.toolserver) : \E g \in (IF f.ran THEN {d} ELSE {guest}) :
            Handled(a, f, g, [Continue(n, "tool") EXCEPT !.undeleted = @ \/ ~f.ran])
    BY Zenon DEF Delete, Request, Handled, Charged
  <1> DEFINE m == [Continue(n, "tool") EXCEPT !.undeleted = @ \/ ~f.ran]
  <1>2. PICK g : g = (IF f.ran THEN d ELSE guest) /\ Handled(a, f, g, m)
    BY <1>1
  <1>3. n \in AgentState /\ n.pc = "delete" /\ AgentInv(n, guest) /\ guest \in GuestState
    BY AgentIs DEF Delete
  <1>4. /\ f \in Fate /\ (f.fault = 0 /\ guest.toolserver => f.ran)
    BY AgentIs, FateIs
  <1>5. /\ m \in AgentState /\ m.pc = "tool" /\ m.tool = n.tool /\ m.source = n.source /\ m.todo = n.todo
        /\ m.failed = n.failed /\ m.echoes = n.echoes /\ m.missing = n.missing /\ m.term = n.term
        /\ m.from = n.from /\ m.landed = n.landed /\ m.judged = n.judged /\ m.made = n.made
        /\ m.truly = n.truly /\ m.upset = n.upset /\ m.builds = n.builds
        /\ m.undeleted = (n.undeleted \/ ~f.ran)
    BY <1>3 DEF AgentState, Step, Continue
  <1>6. /\ d \in GuestState /\ d.src = guest.src /\ d.app = guest.app /\ d.folder = guest.folder
        /\ d.toolserver = guest.toolserver /\ d.obj = [guest.obj EXCEPT ![s] = 0]
    <2>1. s \in Source /\ guest.err \in [ErrFile -> {"none", "clean", "errors"}] /\ guest.obj \in [Source -> Version]
      BY <1>3 DEF AgentState, GuestState
    <2>2. PICK e \in {"none", "clean", "errors"} : e = IF n.tool = "compile" THEN "none" ELSE guest.err["compile"]
      BY <2>1 DEF ErrFile
    <2>3. d = [guest EXCEPT !.obj = [guest.obj EXCEPT ![s] = 0], !.err = [guest.err EXCEPT !["compile"] = e]]
      BY <1>3, <2>2 DEF GuestState
    <2>4. [guest.obj EXCEPT ![s] = 0] \in [Source -> Version]
      BY <2>1, BuildAssumption DEF Version, BuildAssumption
    <2>5. [guest.err EXCEPT !["compile"] = e] \in [ErrFile -> {"none", "clean", "errors"}]
      BY <2>1
    <2> QED
      BY <1>3, <2>3, <2>4, <2>5 DEF GuestState
  <1>7. /\ g \in GuestState /\ g.src = guest.src /\ g.app = guest.app /\ g.folder = guest.folder
        /\ g.toolserver = guest.toolserver /\ g.obj = IF f.ran THEN [guest.obj EXCEPT ![s] = 0] ELSE guest.obj
    BY <1>2, <1>3, <1>6
  <1> HIDE DEF m, d
  <1>8. \A t \in Source : g.obj[t] \in {0, guest.obj[t]} /\ (f.ran => g.obj[s] = 0)
    BY <1>3, <1>7 DEF GuestState, AgentState
  <1>9. Moves(guest, g) /\ \A t \in Source : g.src[t] <= newest
    BY <1>3, <1>7, <1>8 DEF Moves, BuildInd, GuestState
  <1>10. Behind(m, g) /\ Ordered(m)
    BY <1>3, <1>5, <1>7 DEF AgentInv, Behind, Ordered
  <1>11. Succeeded(m) /\ Failed(m)
    BY <1>5 DEF Succeeded, Failed, Outside
  <1>12. InFlight(m, g)
    <2>1. SUFFICES ASSUME ~m.undeleted PROVE InFlight(m, g)
      BY DEF InFlight
    <2>2. f.ran /\ ~n.undeleted
      BY <1>5, <2>1
    <2>3. \A t \in Cleared(m) : t = s \/ t \in Cleared(n)
      BY <1>3, <1>5 DEF Cleared, Outside
    <2>4. \A t \in Source : (guest.obj[t] = 0 \/ Current(n, t, guest.obj[t])) => (g.obj[t] = 0 \/ Current(m, t, g.obj[t]))
      BY <1>5, <1>8 DEF Current
    <2>5. m.tool = "build" => \A t \in Cleared(m) : g.obj[t] = 0 \/ Current(m, t, g.obj[t])
      BY <1>3, <1>5, <1>8, <2>2, <2>3, <2>4 DEF AgentInv, InFlight, Cleared, AgentState
    <2> QED
      BY <1>3, <1>5, <1>8, <2>2, <2>5 DEF InFlight, AgentState
  <1>13. f.fault = 0 => Calm(m, g)
    BY <1>3, <1>4, <1>5, <1>7 DEF AgentInv, Calm, Cause, Outside
  <1>14. FolderAsked(m, g)
    BY <1>3, <1>5, <1>7 DEF AgentInv, FolderAsked
  <1> QED
    BY <1>2, <1>3, <1>4, <1>5, <1>7, <1>9, <1>10, <1>11, <1>12, <1>13, <1>14, AgentIs, QuietKeeps DEF Handled

\* A compiler that says nothing or something of its work.
LEMMA SaidIs ==
    ASSUME NEW g \in GuestState, NEW e \in ErrFile, NEW ok \in BOOLEAN, NEW h \in Said(g, e, ok)
    PROVE  /\ h \in GuestState /\ h.src = g.src /\ h.obj = g.obj /\ h.app = g.app
           /\ h.folder = g.folder /\ h.toolserver = g.toolserver
  <1>1. PICK said \in {"clean", "errors"} : h = [g EXCEPT !.err[e] = said]
    BY DEF Said
  <1>2. [g.err EXCEPT ![e] = said] \in [ErrFile -> {"none", "clean", "errors"}]
    BY DEF GuestState
  <1>3. h = [g EXCEPT !.err = [g.err EXCEPT ![e] = said]]
    BY <1>1 DEF GuestState
  <1> QED
    BY <1>2, <1>3 DEF GuestState

\* The compiler.
LEMMA ToolKeeps ==
    ASSUME BuildInd, NEW a \in Agent, Tool(a)
    PROVE  BuildInd'
  <1> DEFINE n == agent[a]
             s == n.source
             e == n.tool
             made == [guest EXCEPT !.obj[s] = guest.src[s]]
             outs == IF ~guest.folder THEN {guest}
                     ELSE IF guest.src[s] \in Good THEN Said(made, e, TRUE) ELSE Said(guest, e, FALSE)
             m == Continue(n, "catenate")
  <1>1. PICK f \in Fates(guest.toolserver) : \E g \in (IF f.ran THEN outs ELSE {guest}) : Handled(a, f, g, m)
    BY Zenon DEF Tool, Request, Handled, Charged
  <1>2. PICK g : g \in (IF f.ran THEN outs ELSE {guest}) /\ Handled(a, f, g, m)
    BY <1>1
  <1>3. n \in AgentState /\ n.pc = "tool" /\ AgentInv(n, guest) /\ guest \in GuestState /\ s \in Source /\ e \in ErrFile
    BY AgentIs DEF Tool, AgentState
  <1>4. f \in Fate /\ (f.fault = 0 /\ guest.toolserver => f.ran)
    BY AgentIs, FateIs
  <1>5. /\ m \in AgentState /\ m.pc = "catenate" /\ m.tool = n.tool /\ m.source = n.source /\ m.todo = n.todo
        /\ m.failed = n.failed /\ m.echoes = n.echoes /\ m.missing = n.missing /\ m.term = n.term
        /\ m.from = n.from /\ m.landed = n.landed /\ m.judged = n.judged /\ m.made = n.made
        /\ m.truly = n.truly /\ m.upset = n.upset /\ m.builds = n.builds /\ m.undeleted = n.undeleted
    BY <1>3 DEF AgentState, Step, Continue
  <1>6. guest.obj \in [Source -> Version] /\ guest.src \in [Source -> 1..MaxVersion]
    BY <1>3 DEF GuestState
  <1>7. /\ made \in GuestState /\ made.src = guest.src /\ made.app = guest.app /\ made.folder = guest.folder
        /\ made.toolserver = guest.toolserver /\ made.obj = [guest.obj EXCEPT ![s] = guest.src[s]]
    <2>1. [guest.obj EXCEPT ![s] = guest.src[s]] \in [Source -> Version]
      BY <1>3, <1>6, BuildAssumption DEF Version, BuildAssumption
    <2> QED
      BY <1>3, <2>1 DEF GuestState
  <1> HIDE DEF m, made
  <1>8. /\ g \in GuestState /\ g.src = guest.src /\ g.app = guest.app /\ g.folder = guest.folder
        /\ g.toolserver = guest.toolserver
        /\ g.obj = guest.obj \/ g.obj = [guest.obj EXCEPT ![s] = guest.src[s]]
        /\ f.ran /\ guest.folder /\ guest.src[s] \in Good => g.obj = [guest.obj EXCEPT ![s] = guest.src[s]]
    <2>1. CASE ~f.ran \/ ~guest.folder
      BY <1>2, <1>3, <2>1
    <2>2. CASE f.ran /\ guest.folder /\ guest.src[s] \in Good
      BY <1>2, <1>3, <1>7, <2>2, SaidIs
    <2>3. CASE f.ran /\ guest.folder /\ guest.src[s] \notin Good
      BY <1>2, <1>3, <2>3, SaidIs
    <2> QED
      BY <2>1, <2>2, <2>3
  <1>9. \A t \in Source : g.obj[t] \in {guest.obj[t], guest.src[t]}
    BY <1>3, <1>6, <1>8
  <1>10. Moves(guest, g) /\ \A t \in Source : g.src[t] <= newest
    BY <1>6, <1>8, <1>9 DEF Moves, BuildInd
  <1>11. Behind(m, g) /\ Ordered(m)
    BY <1>3, <1>5, <1>8 DEF AgentInv, Behind, Ordered
  <1>12. Succeeded(m) /\ Failed(m)
    BY <1>5 DEF Succeeded, Failed, Outside
  <1>13. InFlight(m, g)
    <2>1. SUFFICES ASSUME ~n.undeleted PROVE InFlight(m, g)
      BY <1>5 DEF InFlight
    <2>2. \A t \in Source : Current(m, t, guest.src[t])
      BY <1>3, <1>5, <1>6 DEF AgentInv, Behind, Current, AgentState, Version
    <2>3. \A t \in Source : (guest.obj[t] = 0 \/ Current(n, t, guest.obj[t])) => (g.obj[t] = 0 \/ Current(m, t, g.obj[t]))
      BY <1>5, <1>9, <2>2 DEF Current
    <2>4. Cleared(m) = Cleared(n) /\ \A t \in Cleared(n) : t \in Source
      BY <1>3, <1>5 DEF Cleared, Outside
    <2> QED
      BY <1>3, <1>5, <2>1, <2>3, <2>4 DEF AgentInv, InFlight
  <1>14. f.fault = 0 => Calm(m, g)
    BY <1>3, <1>4, <1>5, <1>6, <1>8 DEF AgentInv, Calm, Cause, Outside
  <1>15. FolderAsked(m, g)
    BY <1>3, <1>5, <1>8 DEF AgentInv, FolderAsked
  <1> QED
    BY <1>2, <1>5, <1>8, <1>10, <1>11, <1>12, <1>13, <1>14, <1>15, AgentIs, QuietKeeps

\* A request that only looks.
LEMMA LookKeeps ==
    ASSUME BuildInd, NEW a \in Agent, NEW there \in BOOLEAN, NEW f \in Fates(there), NEW m \in AgentState,
           Handled(a, f, guest, m), m.builds <= MaxBuilds[a], m.upset = agent[a].upset,
           Behind(m, guest), InFlight(m, guest), Ordered(m), Succeeded(m),
           f.fault = 0 => Calm(m, guest) /\ Failed(m),
           FolderAsked(m, guest)
    PROVE  BuildInd'
  <1>1. guest \in GuestState /\ Moves(guest, guest) /\ \A s \in Source : guest.src[s] <= newest
    BY AgentIs DEF BuildInd
  <1> QED
    BY <1>1, QuietKeeps

\* The diagnostics of the compiler are read.
LEMMA CatenateKeeps ==
    ASSUME BuildInd, NEW a \in Agent, Catenate(a)
    PROVE  BuildInd'
  <1> DEFINE n == agent[a]
  <1>1. PICK f \in Fates(guest.toolserver) :
            Handled(a, f, guest, [Continue(n, "exists") EXCEPT !.errors = Diagnose(n, f, guest)])
    BY Zenon DEF Catenate, Request, Handled, Charged, Unchanged
  <1> DEFINE m == [Continue(n, "exists") EXCEPT !.errors = Diagnose(n, f, guest)]
  <1>2. n \in AgentState /\ n.pc = "catenate" /\ AgentInv(n, guest) /\ guest \in GuestState
    BY AgentIs DEF Catenate
  <1>3. Diagnose(n, f, guest) \in BOOLEAN
    BY AgentIs, FateIs DEF Fate, Diagnose
  <1>4. /\ m \in AgentState /\ m.pc = "exists" /\ m.tool = n.tool /\ m.source = n.source /\ m.todo = n.todo
        /\ m.failed = n.failed /\ m.missing = n.missing
        /\ m.from = n.from /\ m.landed = n.landed /\ m.judged = n.judged /\ m.made = n.made
        /\ m.truly = n.truly /\ m.upset = n.upset /\ m.builds = n.builds /\ m.undeleted = n.undeleted
    BY <1>2, <1>3 DEF AgentState, Step, Continue
  <1> HIDE DEF m
  <1>5. Behind(m, guest) /\ Ordered(m) /\ FolderAsked(m, guest)
    BY <1>2, <1>4 DEF AgentInv, Behind, Ordered, FolderAsked
  <1>6. Succeeded(m) /\ Failed(m)
    BY <1>4 DEF Succeeded, Failed, Outside
  <1>7. Cleared(m) = Cleared(n) /\ \A s, v : Current(m, s, v) <=> Current(n, s, v)
    BY <1>2, <1>4 DEF Cleared, Current, Outside
  <1>8. InFlight(m, guest)
    BY <1>2, <1>4, <1>7 DEF AgentInv, InFlight
  <1>9. Calm(m, guest)
    BY <1>2, <1>4 DEF AgentInv, Calm, Cause, Outside
  <1> QED
    BY <1>1, <1>4, <1>5, <1>6, <1>8, <1>9, AgentIs, LookKeeps DEF m

\* A compile that the watch is told of.
LEMMA NotedIs ==
    ASSUME NEW t \in TerminationState, NEW verdict \in Verdict
    PROVE  /\ CompileNoted(t, verdict) \in TerminationState
           /\ CompileNoted(t, verdict).written = t.written /\ ~CompileNoted(t, verdict).pending
           /\ CompileNoted(t, verdict).verdict = verdict
  <1>1. PICK b \in BOOLEAN : ~b /\ CompileNoted(t, verdict) = [t EXCEPT !.pending = b, !.verdict = verdict]
    BY Zenon DEF CompileNoted
  <1> QED
    BY <1>1 DEF TerminationState

\* What the end of a call makes of its agent.
LEMMA FinishIs ==
    ASSUME NEW n \in AgentState, NEW ok \in BOOLEAN
    PROVE  LET m == Finish(n, ok) IN
           /\ m \in AgentState /\ m.pc = "idle" /\ m.tool = n.tool /\ m.source = n.source /\ m.todo = n.todo
           /\ m.failed = n.failed /\ m.missing = n.missing
           /\ m.from = n.from /\ m.landed = n.landed /\ m.judged = n.judged /\ m.made = n.made
           /\ m.truly = n.truly /\ m.upset = n.upset /\ m.builds = n.builds /\ m.undeleted = n.undeleted
           /\ Ending(m.term) = "recompiled_ok" => ok
           /\ Ending(m.term) = "recompiled_failed" => ~ok
  <1> DEFINE m == Finish(n, ok)
             t == CompileNoted(n.term, Success(ok))
  <1>1. PICK b \in BOOLEAN : ~b /\ m = [n EXCEPT !.pc = "idle", !.errors = b, !.term = t]
    BY Zenon DEF Finish
  <1>2. n.term \in TerminationState /\ Success(ok) \in Verdict /\ Success(ok) = (IF ok THEN "success" ELSE "failure")
    BY DEF AgentState, Verdict, Success
  <1>3. t \in TerminationState /\ ~t.pending /\ t.verdict = Success(ok)
    BY <1>2, NotedIs
  <1> HIDE DEF t
  <1>4. Ending(t) = "recompiled_ok" => ok
    BY <1>2, <1>3 DEF Ending
  <1>5. Ending(t) = "recompiled_failed" => ~ok
    BY <1>2, <1>3 DEF Ending
  <1>6. m = [n EXCEPT !.pc = "idle", !.errors = b, !.term = t]
    BY <1>1 DEF t
  <1> HIDE DEF m
  <1>7. /\ m \in AgentState /\ m.pc = "idle" /\ m.tool = n.tool /\ m.source = n.source /\ m.todo = n.todo
        /\ m.failed = n.failed /\ m.missing = n.missing
        /\ m.from = n.from /\ m.landed = n.landed /\ m.judged = n.judged /\ m.made = n.made
        /\ m.truly = n.truly /\ m.upset = n.upset /\ m.builds = n.builds /\ m.undeleted = n.undeleted
        /\ m.term = t
    BY <1>3, <1>6 DEF AgentState, Step
  <1> QED
    BY <1>4, <1>5, <1>7 DEF m

\* An agent that has ended its call, and what it must know for it.
LEMMA FinishKeeps ==
    ASSUME BuildInd, NEW a \in Agent, NEW there \in BOOLEAN, NEW f \in Fates(there),
           NEW k \in AgentState, NEW ok \in BOOLEAN,
           Handled(a, f, guest, Finish(k, ok)), k.builds <= MaxBuilds[a], k.upset = agent[a].upset,
           Behind(k, guest),
           ok /\ ~k.undeleted => \A s \in k.judged : Current(k, s, k.made[s]),
           f.fault = 0 /\ ~ok /\ k.upset = {} /\ (k.tool = "compile" \/ k.failed) => Cause(k),
           k.missing => k.truly \/ "folder" \in k.upset \/ (f.fault # 0 /\ agent[a].pc = "folder")
    PROVE  BuildInd'
  <1> DEFINE m == Finish(k, ok)
  <1>1. /\ m \in AgentState /\ m.pc = "idle" /\ m.tool = k.tool /\ m.source = k.source /\ m.todo = k.todo
        /\ m.failed = k.failed /\ m.missing = k.missing
        /\ m.from = k.from /\ m.landed = k.landed /\ m.judged = k.judged /\ m.made = k.made
        /\ m.truly = k.truly /\ m.upset = k.upset /\ m.builds = k.builds /\ m.undeleted = k.undeleted
        /\ Ending(m.term) = "recompiled_ok" => ok
        /\ Ending(m.term) = "recompiled_failed" => ~ok
    BY FinishIs
  <1> HIDE DEF m
  <1>2. Behind(m, guest) /\ Ordered(m) /\ Calm(m, guest)
    BY <1>1 DEF Behind, Ordered, Calm, Outside
  <1>3. (Cause(m) <=> Cause(k)) /\ \A s, v : Current(m, s, v) <=> Current(k, s, v)
    BY <1>1 DEF Cause, Current
  <1>4. Succeeded(m) /\ (f.fault = 0 => Failed(m))
    BY <1>1, <1>3 DEF Succeeded, Failed
  <1>5. InFlight(m, guest)
    BY <1>1 DEF InFlight, Cleared, Outside
  <1>6. guest \in GuestState /\ Moves(guest, guest) /\ \A s \in Source : guest.src[s] <= newest
    BY AgentIs DEF BuildInd
  <1>7. FolderAsked(Charged(m, f, Stage(a)), guest)
    <2>1. f \in Fate /\ Stage(a) \in SUBSET {"step", "folder"}
      BY FateIs DEF BuildInd, Stage
    <2>2. Charged(m, f, Stage(a)) = [m EXCEPT !.upset = IF f.fault = 0 THEN m.upset ELSE m.upset \union Stage(a)]
      BY <1>1, <2>1, ChargedIs
    <2>3. /\ Charged(m, f, Stage(a)).missing = k.missing /\ Charged(m, f, Stage(a)).truly = k.truly
          /\ Charged(m, f, Stage(a)).pc = "idle"
      BY <1>1, <2>2 DEF AgentState
    <2>4. k.missing => k.truly \/ "folder" \in Charged(m, f, Stage(a)).upset
      BY <1>1, <2>2 DEF AgentState, Stage
    <2> QED
      BY <2>3, <2>4 DEF FolderAsked
  <1>8. Handled(a, f, guest, m)
    BY DEF m
  <1> QED
    BY <1>1, <1>2, <1>4, <1>5, <1>6, <1>7, <1>8, RequestKeeps

\* The look for the object, and what follows from it.
LEMMA ExistsKeeps ==
    ASSUME BuildInd, NEW a \in Agent, Exists(a)
    PROVE  BuildInd'
  <1> DEFINE n == agent[a]
             s == n.source
             k == [n EXCEPT !.judged = @ \union {s}, !.made[s] = guest.obj[s]]
  <1>1. PICK f \in Fates(guest.toolserver) :
            Handled(a, f, guest, Judge(k, f.answered /\ guest.obj[s] # 0))
    BY Zenon DEF Exists, Request, Handled, Charged, Unchanged
  <1> DEFINE found == f.answered /\ guest.obj[s] # 0
  <1>2. n \in AgentState /\ n.pc = "exists" /\ AgentInv(n, guest) /\ guest \in GuestState /\ s \in Source
    BY AgentIs DEF Exists, AgentState
  <1>3. f \in Fate /\ (f.fault = 0 /\ guest.toolserver => f.answered) /\ found \in BOOLEAN
    BY AgentIs, FateIs
  <1>4. guest.obj \in [Source -> Version] /\ guest.src \in [Source -> 1..MaxVersion]
    BY <1>2 DEF GuestState
  <1>5. /\ k \in AgentState /\ k.pc = "exists" /\ k.tool = n.tool /\ k.source = n.source /\ k.todo = n.todo
        /\ k.failed = n.failed /\ k.echoes = n.echoes /\ k.missing = n.missing /\ k.term = n.term
        /\ k.from = n.from /\ k.landed = n.landed /\ k.judged = n.judged \union {s}
        /\ k.made = [n.made EXCEPT ![s] = guest.obj[s]]
        /\ k.truly = n.truly /\ k.upset = n.upset /\ k.builds = n.builds /\ k.undeleted = n.undeleted
    BY <1>2, <1>4 DEF AgentState
  <1>6. k.made[s] = guest.obj[s]
    BY <1>2, <1>5 DEF AgentState
  <1> HIDE DEF k, found
  <1>7. Behind(k, guest)
    BY <1>2, <1>5 DEF AgentInv, Behind
  <1>8. (\A t, v : Current(k, t, v) <=> Current(n, t, v)) /\ (Cause(n) => Cause(k))
    BY <1>5 DEF Current, Cause
  <1>9. f.fault = 0 /\ n.upset = {} /\ ~found => Cause(k)
    <2>1. SUFFICES ASSUME f.fault = 0, n.upset = {}, ~found PROVE Cause(k)
      OBVIOUS
    <2>2. guest.toolserver /\ n.truly = ~guest.folder /\ (guest.folder /\ n.from[s] \in Good => guest.obj[s] # 0)
      BY <1>2, <2>1 DEF AgentInv, Calm, Outside
    <2>3. guest.obj[s] = 0
      BY <1>3, <2>1, <2>2 DEF found
    <2> QED
      BY <1>5, <2>2, <2>3 DEF Cause
  <1>10. CASE n.tool = "compile" /\ found
    <2>1. Judge(k, found) = Finish(k, TRUE)
      BY <1>5, <1>10 DEF Judge
    <2>2. n.judged = {}
      BY <1>2, <1>10 DEF AgentInv, Ordered
    <2>3. ~k.undeleted => \A t \in k.judged : Current(k, t, k.made[t])
      BY <1>2, <1>5, <1>6, <1>8, <1>10, <2>2 DEF AgentInv, InFlight, found
    <2>4. k.missing => k.truly \/ "folder" \in k.upset
      BY <1>2, <1>5 DEF AgentInv, FolderAsked
    <2>5. Handled(a, f, guest, Finish(k, TRUE))
      BY <1>1, <2>1 DEF found
    <2> QED
      BY <1>5, <1>7, <2>3, <2>4, <2>5, AgentIs, FinishKeeps
  <1>11. CASE n.tool = "compile" /\ ~found
    <2> DEFINE m == Continue(k, "alive")
    <2>1. Judge(k, found) = m
      BY <1>5, <1>11 DEF Judge
    <2>2. /\ m \in AgentState /\ m.pc = "alive" /\ m.tool = n.tool /\ m.source = n.source /\ m.todo = n.todo
          /\ m.failed = n.failed /\ m.missing = n.missing /\ m.from = n.from /\ m.landed = n.landed
          /\ m.judged = k.judged /\ m.made = k.made
          /\ m.truly = n.truly /\ m.upset = n.upset /\ m.builds = n.builds /\ m.undeleted = n.undeleted
      BY <1>5 DEF AgentState, Step, Continue
    <2> HIDE DEF m
    <2>3. Behind(m, guest) /\ Ordered(m) /\ FolderAsked(m, guest)
      BY <1>2, <1>11, <2>2 DEF AgentInv, Behind, Ordered, FolderAsked
    <2>4. Succeeded(m) /\ Failed(m)
      BY <2>2 DEF Succeeded, Failed, Outside
    <2>5. InFlight(m, guest)
      BY <1>11, <2>2 DEF InFlight
    <2>6. Cause(m) <=> Cause(k)
      BY <1>5, <2>2 DEF Cause
    <2>7. f.fault = 0 => Calm(m, guest)
      BY <1>2, <1>8, <1>9, <1>11, <2>2, <2>6 DEF AgentInv, Calm, Outside
    <2> QED
      BY <1>1, <2>1, <2>2, <2>3, <2>4, <2>5, <2>7, AgentIs, LookKeeps DEF found
  <1>12. CASE n.tool = "build" /\ n.todo # {}
    <2> DEFINE next == CHOOSE t \in k.todo : TRUE
               m == [Continue(k, "delete") EXCEPT !.source = next, !.todo = @ \ {next}, !.failed = @ \/ ~found]
    <2>1. Judge(k, found) = m
      BY <1>5, <1>12, Zenon DEF Judge
    <2>2. next \in n.todo /\ next \in Source
      BY <1>2, <1>5, <1>12 DEF AgentState
    <2>3. /\ m \in AgentState /\ m.pc = "delete" /\ m.tool = n.tool /\ m.source = next /\ m.todo = n.todo \ {next}
          /\ m.failed = (n.failed \/ ~found) /\ m.missing = n.missing /\ m.from = n.from /\ m.landed = n.landed
          /\ m.judged = k.judged /\ m.made = k.made
          /\ m.truly = n.truly /\ m.upset = n.upset /\ m.builds = n.builds /\ m.undeleted = n.undeleted
      BY <1>3, <1>5, <2>2 DEF AgentState, Step, Continue
    <2> HIDE DEF m, next
    <2>4. Behind(m, guest) /\ Ordered(m) /\ FolderAsked(m, guest)
      BY <1>2, <1>12, <2>3 DEF AgentInv, Behind, Ordered, FolderAsked
    <2>5. Succeeded(m) /\ Failed(m)
      BY <2>3 DEF Succeeded, Failed, Outside
    <2>6. InFlight(m, guest)
      <3>1. \A t \in Cleared(m) : t \in Cleared(n)
        BY <1>2, <2>2, <2>3 DEF Cleared, Outside
      <3>2. \A t, v : Current(m, t, v) <=> Current(n, t, v)
        BY <2>3 DEF Current
      <3> QED
        BY <1>2, <1>12, <2>3, <3>1, <3>2 DEF AgentInv, InFlight
    <2>7. Cause(m) <=> Cause(k)
      BY <1>5, <2>3 DEF Cause
    <2>8. f.fault = 0 => Calm(m, guest)
      BY <1>2, <1>8, <1>9, <1>12, <2>3, <2>7 DEF AgentInv, Calm, Outside
    <2> QED
      BY <1>1, <2>1, <2>3, <2>4, <2>5, <2>6, <2>8, AgentIs, LookKeeps DEF found
  <1>13. CASE n.tool = "build" /\ n.todo = {} /\ (n.failed \/ ~found)
    <2> DEFINE j == [k EXCEPT !.failed = TRUE]
    <2>1. Judge(k, found) = Finish(j, FALSE)
      BY <1>5, <1>13, Zenon DEF Judge
    <2>2. PICK b \in BOOLEAN : b /\ j = [k EXCEPT !.failed = b]
      BY Zenon
    <2>3. /\ j \in AgentState /\ j.tool = n.tool /\ j.missing = n.missing /\ j.from = n.from /\ j.landed = n.landed
          /\ j.judged = k.judged /\ j.made = k.made
          /\ j.truly = n.truly /\ j.upset = n.upset /\ j.builds = n.builds /\ j.undeleted = n.undeleted
      BY <1>5, <2>2 DEF AgentState
    <2> HIDE DEF j
    <2>4. Behind(j, guest) /\ (Cause(j) <=> Cause(k))
      BY <1>2, <1>5, <2>3 DEF AgentInv, Behind, Cause
    <2>5. f.fault = 0 /\ j.upset = {} => Cause(j)
      BY <1>2, <1>8, <1>9, <1>13, <2>3, <2>4 DEF AgentInv, Calm, Outside
    <2>6. j.missing => j.truly \/ "folder" \in j.upset
      BY <1>2, <2>3 DEF AgentInv, FolderAsked
    <2>7. Handled(a, f, guest, Finish(j, FALSE))
      BY <1>1, <2>1 DEF found
    <2> QED
      BY <2>3, <2>4, <2>5, <2>6, <2>7, AgentIs, FinishKeeps
  <1>14. CASE n.tool = "build" /\ n.todo = {} /\ ~n.failed /\ found
    <2> DEFINE m == Continue(k, "unlink")
    <2>1. Judge(k, found) = m
      BY <1>5, <1>14 DEF Judge
    <2>2. /\ m \in AgentState /\ m.pc = "unlink" /\ m.tool = n.tool /\ m.source = n.source /\ m.todo = n.todo
          /\ m.failed = n.failed /\ m.missing = n.missing /\ m.from = n.from /\ m.landed = n.landed
          /\ m.judged = k.judged /\ m.made = k.made
          /\ m.truly = n.truly /\ m.upset = n.upset /\ m.builds = n.builds /\ m.undeleted = n.undeleted
      BY <1>5 DEF AgentState, Step, Continue
    <2> HIDE DEF m
    <2>3. Behind(m, guest) /\ Ordered(m) /\ FolderAsked(m, guest)
      BY <1>2, <1>14, <2>2 DEF AgentInv, Behind, Ordered, FolderAsked
    <2>4. Succeeded(m) /\ Failed(m)
      BY <2>2 DEF Succeeded, Failed, Outside
    <2>5. InFlight(m, guest)
      <3>1. Cleared(m) = Cleared(n) /\ \A t, v : Current(m, t, v) <=> Current(n, t, v)
        BY <1>2, <2>2 DEF Cleared, Current, Outside
      <3> QED
        BY <1>2, <1>14, <2>2, <3>1 DEF AgentInv, InFlight
    <2>6. Calm(m, guest)
      BY <1>2, <1>14, <2>2 DEF AgentInv, Calm, Outside
    <2> QED
      BY <1>1, <2>1, <2>2, <2>3, <2>4, <2>5, <2>6, AgentIs, LookKeeps DEF found
  <1>15. n.tool \in {"compile", "build"} /\ n.failed \in BOOLEAN
    BY <1>2 DEF AgentState, ErrFile
  <1> QED
    BY <1>3, <1>10, <1>11, <1>12, <1>13, <1>14, <1>15

\* Whether ToolServer answers, before the folder is asked for.
LEMMA AliveKeeps ==
    ASSUME BuildInd, NEW a \in Agent, Alive(a)
    PROVE  BuildInd'
  <1> DEFINE n == agent[a]
             m == Continue(n, "folder")
  <1>1. PICK f \in Fates(guest.toolserver) :
            Handled(a, f, guest, IF f.answered THEN m ELSE Finish(n, FALSE))
    BY Zenon DEF Alive, Request, Handled, Charged, Unchanged
  <1>2. n \in AgentState /\ n.pc = "alive" /\ AgentInv(n, guest) /\ guest \in GuestState
    BY AgentIs DEF Alive
  <1>3. f \in Fate /\ (f.fault = 0 /\ guest.toolserver => f.answered) /\ (f.answered => guest.toolserver)
    BY AgentIs, FateIs
  <1>4. CASE f.answered
    <2>1. /\ m \in AgentState /\ m.pc = "folder" /\ m.tool = n.tool /\ m.source = n.source /\ m.todo = n.todo
          /\ m.failed = n.failed /\ m.missing = n.missing /\ m.from = n.from /\ m.landed = n.landed
          /\ m.judged = n.judged /\ m.made = n.made
          /\ m.truly = n.truly /\ m.upset = n.upset /\ m.builds = n.builds /\ m.undeleted = n.undeleted
      BY <1>2 DEF AgentState, Step, Continue
    <2> HIDE DEF m
    <2>2. Behind(m, guest) /\ Ordered(m) /\ FolderAsked(m, guest)
      BY <1>2, <1>3, <1>4, <2>1 DEF AgentInv, Behind, Ordered, FolderAsked
    <2>3. Succeeded(m) /\ Failed(m)
      BY <2>1 DEF Succeeded, Failed, Outside
    <2>4. InFlight(m, guest)
      BY <1>2, <2>1 DEF AgentInv, Ordered, InFlight
    <2>5. Calm(m, guest)
      BY <1>2, <2>1 DEF AgentInv, Calm, Cause, Outside
    <2> QED
      BY <1>1, <1>4, <2>1, <2>2, <2>3, <2>4, <2>5, AgentIs, LookKeeps
  <1>5. CASE ~f.answered
    <2>1. Handled(a, f, guest, Finish(n, FALSE)) /\ Behind(n, guest)
      BY <1>1, <1>2, <1>5 DEF AgentInv
    <2>2. n.missing => n.truly \/ "folder" \in n.upset
      BY <1>2 DEF AgentInv, FolderAsked
    <2>3. f.fault = 0 /\ n.upset = {} => Cause(n)
      BY <1>2 DEF AgentInv, Calm, Outside
    <2> QED
      BY <1>2, <2>1, <2>2, <2>3, AgentIs, FinishKeeps
  <1> QED
    BY <1>4, <1>5

\* Whether the output folder is there.
LEMMA FolderKeeps ==
    ASSUME BuildInd, NEW a \in Agent, Folder(a)
    PROVE  BuildInd'
  <1> DEFINE n == agent[a]
  <1>1. PICK f \in Fates(guest.toolserver) :
            Handled(a, f, guest, Finish([n EXCEPT !.missing = ~f.answered \/ ~guest.folder, !.truly = ~guest.folder], FALSE))
    BY Zenon DEF Folder, Request, Handled, Charged, Unchanged
  <1> DEFINE k == [n EXCEPT !.missing = ~f.answered \/ ~guest.folder, !.truly = ~guest.folder]
  <1>2. n \in AgentState /\ n.pc = "folder" /\ AgentInv(n, guest) /\ guest \in GuestState
    BY AgentIs DEF Folder
  <1>3. f \in Fate /\ (f.fault = 0 /\ guest.toolserver => f.answered)
    BY AgentIs, FateIs
  <1>4. /\ k \in AgentState /\ k.tool = n.tool /\ k.failed = n.failed
        /\ k.missing = (~f.answered \/ ~guest.folder) /\ k.truly = ~guest.folder
        /\ k.from = n.from /\ k.landed = n.landed /\ k.judged = n.judged /\ k.made = n.made
        /\ k.upset = n.upset /\ k.builds = n.builds /\ k.undeleted = n.undeleted
    BY <1>2 DEF AgentState
  <1> HIDE DEF k
  <1>5. Behind(k, guest)
    BY <1>2, <1>4 DEF AgentInv, Behind
  <1>6. k.missing => k.truly \/ "folder" \in k.upset \/ (f.fault # 0 /\ n.pc = "folder")
    BY <1>2, <1>3, <1>4 DEF AgentInv, FolderAsked
  <1>7. f.fault = 0 /\ k.upset = {} => Cause(k)
    BY <1>2, <1>4 DEF AgentInv, Calm, Cause, Outside
  <1>8. Handled(a, f, guest, Finish(k, FALSE))
    BY <1>1 DEF k
  <1> QED
    BY <1>2, <1>4, <1>5, <1>6, <1>7, <1>8, AgentIs, FinishKeeps

-----------------------------------------------------------------------------
(* The steps of a link *)

\* The Delete before the linker.
LEMMA UnlinkKeeps ==
    ASSUME BuildInd, NEW a \in Agent, Unlink(a)
    PROVE  BuildInd'
  <1> DEFINE n == agent[a]
             d == [guest EXCEPT !.app = Nowhere]
  <1>1. PICK f \in Fates(guest.toolserver) : \E g \in (IF f.ran THEN {d} ELSE {guest}) :
            Handled(a, f, g, [Continue(n, "link") EXCEPT !.undeleted = @ \/ ~f.ran])
    BY Zenon DEF Unlink, Request, Handled, Charged
  <1> DEFINE m == [Continue(n, "link") EXCEPT !.undeleted = @ \/ ~f.ran]
  <1>2. PICK g : g = (IF f.ran THEN d ELSE guest) /\ Handled(a, f, g, m)
    BY <1>1
  <1>3. n \in AgentState /\ n.pc = "unlink" /\ AgentInv(n, guest) /\ guest \in GuestState
    BY AgentIs DEF Unlink
  <1>4. /\ f \in Fate /\ (f.fault = 0 /\ guest.toolserver => f.ran)
    BY AgentIs, FateIs
  <1>5. /\ m \in AgentState /\ m.pc = "link" /\ m.tool = n.tool /\ m.source = n.source /\ m.todo = n.todo
        /\ m.failed = n.failed /\ m.missing = n.missing
        /\ m.from = n.from /\ m.landed = n.landed /\ m.judged = n.judged /\ m.made = n.made
        /\ m.truly = n.truly /\ m.upset = n.upset /\ m.builds = n.builds
        /\ m.undeleted = (n.undeleted \/ ~f.ran)
    BY <1>3 DEF AgentState, Step, Continue
  <1>6. Nowhere \in [Source -> Version]
    BY BuildAssumption DEF Nowhere, Version, BuildAssumption
  <1>7. /\ g \in GuestState /\ g.src = guest.src /\ g.obj = guest.obj /\ g.folder = guest.folder
        /\ g.toolserver = guest.toolserver /\ g.app = IF f.ran THEN Nowhere ELSE guest.app
    BY <1>2, <1>3, <1>6 DEF GuestState
  <1> HIDE DEF m, d
  <1>8. Moves(guest, g) /\ \A t \in Source : g.src[t] <= newest
    BY <1>3, <1>7 DEF Moves, BuildInd, GuestState
  <1>9. Behind(m, g) /\ Ordered(m) /\ FolderAsked(m, g)
    BY <1>3, <1>5, <1>7 DEF AgentInv, Behind, Ordered, FolderAsked
  <1>10. Succeeded(m) /\ Failed(m)
    BY <1>5 DEF Succeeded, Failed, Outside
  <1>11. InFlight(m, g)
    <2>1. Cleared(m) = Cleared(n) /\ \A t, v : Current(m, t, v) <=> Current(n, t, v)
      BY <1>3, <1>5 DEF Cleared, Current, Outside
    <2> QED
      BY <1>3, <1>5, <1>7, <2>1 DEF AgentInv, InFlight
  <1>12. f.fault = 0 => Calm(m, g)
    BY <1>3, <1>4, <1>5, <1>7 DEF AgentInv, Calm, Cause, Outside
  <1> QED
    BY <1>2, <1>5, <1>7, <1>8, <1>9, <1>10, <1>11, <1>12, AgentIs, QuietKeeps

\* The linker.
LEMMA LinkAppKeeps ==
    ASSUME BuildInd, NEW a \in Agent, LinkApp(a)
    PROVE  BuildInd'
  <1> DEFINE n == agent[a]
             all == \A s \in Source : guest.obj[s] # 0
             made == [guest EXCEPT !.app = guest.obj]
             outs == Said(guest, "build", FALSE) \union (IF all THEN Said(made, "build", TRUE) ELSE {})
             m == Continue(n, "linkdiag")
  <1>1. PICK f \in Fates(guest.toolserver) : \E g \in (IF f.ran THEN outs ELSE {guest}) : Handled(a, f, g, m)
    BY Zenon DEF LinkApp, Request, Handled, Charged
  <1>2. PICK g : g \in (IF f.ran THEN outs ELSE {guest}) /\ Handled(a, f, g, m)
    BY <1>1
  <1>3. n \in AgentState /\ n.pc = "link" /\ AgentInv(n, guest) /\ guest \in GuestState
    BY AgentIs DEF LinkApp
  <1>4. f \in Fate
    BY AgentIs, FateIs
  <1>5. /\ m \in AgentState /\ m.pc = "linkdiag" /\ m.tool = n.tool /\ m.source = n.source /\ m.todo = n.todo
        /\ m.failed = n.failed /\ m.missing = n.missing
        /\ m.from = n.from /\ m.landed = n.landed /\ m.judged = n.judged /\ m.made = n.made
        /\ m.truly = n.truly /\ m.upset = n.upset /\ m.builds = n.builds /\ m.undeleted = n.undeleted
    BY <1>3 DEF AgentState, Step, Continue
  <1>6. /\ made \in GuestState /\ made.src = guest.src /\ made.obj = guest.obj /\ made.folder = guest.folder
        /\ made.toolserver = guest.toolserver /\ made.app = guest.obj
    BY <1>3 DEF GuestState
  <1> HIDE DEF m, made
  <1>7. /\ g \in GuestState /\ g.src = guest.src /\ g.obj = guest.obj /\ g.folder = guest.folder
        /\ g.toolserver = guest.toolserver /\ (g.app = guest.app \/ (g.app = guest.obj /\ all))
    <2>1. CASE ~f.ran
      BY <1>2, <1>3, <2>1
    <2>2. CASE f.ran /\ g \in Said(guest, "build", FALSE)
      <3>1. "build" \in ErrFile
        BY DEF ErrFile
      <3> QED
        BY <1>3, <2>2, <3>1, SaidIs
    <2>3. CASE f.ran /\ all /\ g \in Said(made, "build", TRUE)
      <3>1. "build" \in ErrFile
        BY DEF ErrFile
      <3> QED
        BY <1>6, <2>3, <3>1, SaidIs
    <2> QED
      BY <1>2, <2>1, <2>2, <2>3
  <1>8. Moves(guest, g) /\ \A t \in Source : g.src[t] <= newest
    BY <1>3, <1>7 DEF Moves, BuildInd, GuestState
  <1>9. Behind(m, g) /\ Ordered(m) /\ FolderAsked(m, g)
    BY <1>3, <1>5, <1>7 DEF AgentInv, Behind, Ordered, FolderAsked
  <1>10. Succeeded(m) /\ Failed(m)
    BY <1>5 DEF Succeeded, Failed, Outside
  <1>11. InFlight(m, g)
    <2>1. Cleared(m) = Cleared(n) /\ \A t, v : Current(m, t, v) <=> Current(n, t, v)
      BY <1>3, <1>5 DEF Cleared, Current, Outside
    <2>2. n.tool = "build" /\ Cleared(n) = Source
      BY <1>3 DEF AgentInv, Ordered, Cleared, Outside
    <2>3. ~n.undeleted => \A t \in Source : guest.obj[t] = 0 \/ Current(n, t, guest.obj[t])
      BY <1>3, <2>2 DEF AgentInv, InFlight
    <2>4. ~n.undeleted => g.app = Nowhere \/ \A t \in Source : Current(n, t, g.app[t])
      BY <1>3, <1>7, <2>3 DEF AgentInv, InFlight
    <2> QED
      BY <1>5, <1>7, <2>1, <2>2, <2>3, <2>4 DEF InFlight
  <1>12. Calm(m, g)
    BY <1>3, <1>5, <1>7 DEF AgentInv, Calm, Cause, Outside
  <1> QED
    BY <1>2, <1>5, <1>7, <1>8, <1>9, <1>10, <1>11, <1>12, AgentIs, QuietKeeps

\* The diagnostics of the linker are read.
LEMMA LinkDiagKeeps ==
    ASSUME BuildInd, NEW a \in Agent, LinkDiag(a)
    PROVE  BuildInd'
  <1> DEFINE n == agent[a]
  <1>1. PICK f \in Fates(guest.toolserver) :
            Handled(a, f, guest, [Continue(n, "linked") EXCEPT !.errors = Diagnose(n, f, guest)])
    BY Zenon DEF LinkDiag, Request, Handled, Charged, Unchanged
  <1> DEFINE m == [Continue(n, "linked") EXCEPT !.errors = Diagnose(n, f, guest)]
  <1>2. n \in AgentState /\ n.pc = "linkdiag" /\ AgentInv(n, guest) /\ guest \in GuestState
    BY AgentIs DEF LinkDiag
  <1>3. Diagnose(n, f, guest) \in BOOLEAN
    BY AgentIs, FateIs DEF Fate, Diagnose
  <1>4. /\ m \in AgentState /\ m.pc = "linked" /\ m.tool = n.tool /\ m.source = n.source /\ m.todo = n.todo
        /\ m.failed = n.failed /\ m.missing = n.missing
        /\ m.from = n.from /\ m.landed = n.landed /\ m.judged = n.judged /\ m.made = n.made
        /\ m.truly = n.truly /\ m.upset = n.upset /\ m.builds = n.builds /\ m.undeleted = n.undeleted
    BY <1>2, <1>3 DEF AgentState, Step, Continue
  <1> HIDE DEF m
  <1>5. Behind(m, guest) /\ Ordered(m) /\ FolderAsked(m, guest)
    BY <1>2, <1>4 DEF AgentInv, Behind, Ordered, FolderAsked
  <1>6. Succeeded(m) /\ Failed(m)
    BY <1>4 DEF Succeeded, Failed, Outside
  <1>7. Cleared(m) = Cleared(n) /\ \A s, v : Current(m, s, v) <=> Current(n, s, v)
    BY <1>2, <1>4 DEF Cleared, Current, Outside
  <1>8. InFlight(m, guest)
    BY <1>2, <1>4, <1>7 DEF AgentInv, InFlight
  <1>9. Calm(m, guest)
    BY <1>2, <1>4 DEF AgentInv, Calm, Cause, Outside
  <1> QED
    BY <1>1, <1>4, <1>5, <1>6, <1>8, <1>9, AgentIs, LookKeeps DEF m

\* The look for the application.
LEMMA LinkedKeeps ==
    ASSUME BuildInd, NEW a \in Agent, Linked(a)
    PROVE  BuildInd'
  <1> DEFINE n == agent[a]
             k == [n EXCEPT !.made = guest.app]
  <1>1. PICK withRez \in BOOLEAN, f \in Fates(guest.toolserver) :
            Handled(a, f, guest, IF ~f.answered \/ guest.app = Nowhere \/ n.errors THEN Finish(k, FALSE)
                                 ELSE IF withRez THEN Continue(k, "rez") ELSE Finish(k, TRUE))
    BY Zenon DEF Linked, Request, Handled, Charged, Unchanged
  <1>2. n \in AgentState /\ n.pc = "linked" /\ AgentInv(n, guest) /\ guest \in GuestState
    BY AgentIs DEF Linked
  <1>3. f \in Fate
    BY AgentIs, FateIs
  <1>4. /\ k \in AgentState /\ k.pc = "linked" /\ k.tool = n.tool /\ k.source = n.source /\ k.todo = n.todo
        /\ k.failed = n.failed /\ k.missing = n.missing
        /\ k.from = n.from /\ k.landed = n.landed /\ k.judged = n.judged /\ k.made = guest.app
        /\ k.truly = n.truly /\ k.upset = n.upset /\ k.builds = n.builds /\ k.undeleted = n.undeleted
    BY <1>2 DEF AgentState, GuestState
  <1>5. n.tool = "build" /\ n.todo = {} /\ ~n.failed
    BY <1>2 DEF AgentInv, Ordered
  <1> HIDE DEF k
  <1>6. Behind(k, guest) /\ \A t, v : Current(k, t, v) <=> Current(n, t, v)
    BY <1>2, <1>4 DEF AgentInv, Behind, Current
  <1>7. ~n.undeleted /\ guest.app # Nowhere => \A t \in Source : Current(k, t, k.made[t])
    BY <1>2, <1>4, <1>6 DEF AgentInv, InFlight
  <1>8. k.missing => k.truly \/ "folder" \in k.upset
    BY <1>2, <1>4 DEF AgentInv, FolderAsked
  <1>9. CASE ~f.answered \/ guest.app = Nowhere \/ n.errors
    <2>1. Handled(a, f, guest, Finish(k, FALSE))
      BY <1>1, <1>9
    <2> QED
      BY <1>4, <1>5, <1>6, <1>8, <2>1, AgentIs, FinishKeeps DEF ErrFile
  <1>10. CASE ~(~f.answered \/ guest.app = Nowhere \/ n.errors) /\ ~withRez
    <2>1. Handled(a, f, guest, Finish(k, TRUE))
      BY <1>1, <1>10
    <2>2. ~k.undeleted => \A t \in k.judged : Current(k, t, k.made[t])
      BY <1>4, <1>7, <1>10 DEF AgentState
    <2> QED
      BY <1>4, <1>6, <1>8, <2>1, <2>2, AgentIs, FinishKeeps
  <1>11. CASE ~(~f.answered \/ guest.app = Nowhere \/ n.errors) /\ withRez
    <2> DEFINE m == Continue(k, "rez")
    <2>1. /\ m \in AgentState /\ m.pc = "rez" /\ m.tool = n.tool /\ m.source = n.source /\ m.todo = n.todo
          /\ m.failed = n.failed /\ m.missing = n.missing
          /\ m.from = n.from /\ m.landed = n.landed /\ m.judged = n.judged /\ m.made = k.made
          /\ m.truly = n.truly /\ m.upset = n.upset /\ m.builds = n.builds /\ m.undeleted = n.undeleted
      BY <1>4 DEF AgentState, Step, Continue
    <2>2. Handled(a, f, guest, m)
      BY <1>1, <1>11
    <2> HIDE DEF m
    <2>3. Behind(m, guest) /\ Ordered(m) /\ FolderAsked(m, guest)
      BY <1>2, <1>5, <2>1 DEF AgentInv, Behind, Ordered, FolderAsked
    <2>4. Succeeded(m) /\ Failed(m)
      BY <2>1 DEF Succeeded, Failed, Outside
    <2>5. Cleared(m) = Cleared(n) /\ \A s, v : Current(m, s, v) <=> Current(k, s, v)
      BY <1>2, <1>4, <2>1 DEF Cleared, Current, Outside
    <2>6. InFlight(m, guest)
      BY <1>2, <1>6, <1>7, <1>11, <2>1, <2>5 DEF AgentInv, InFlight
    <2>7. Calm(m, guest)
      BY <1>2, <2>1 DEF AgentInv, Calm, Cause, Outside
    <2> QED
      BY <2>1, <2>2, <2>3, <2>4, <2>6, <2>7, AgentIs, LookKeeps
  <1> QED
    BY <1>9, <1>10, <1>11

\* Rez.
LEMMA RezKeeps ==
    ASSUME BuildInd, NEW a \in Agent, Rez(a)
    PROVE  BuildInd'
  <1> DEFINE n == agent[a]
             m == Continue(n, "rezdiag")
  <1>1. PICK f \in Fates(guest.toolserver) :
            \E g \in (IF f.ran THEN Said(guest, "build", FALSE) ELSE {guest}) : Handled(a, f, g, m)
    BY Zenon DEF Rez, Request, Handled, Charged
  <1>2. PICK g : g \in (IF f.ran THEN Said(guest, "build", FALSE) ELSE {guest}) /\ Handled(a, f, g, m)
    BY <1>1
  <1>3. n \in AgentState /\ n.pc = "rez" /\ AgentInv(n, guest) /\ guest \in GuestState /\ f \in Fate
    BY AgentIs, FateIs DEF Rez
  <1>4. /\ m \in AgentState /\ m.pc = "rezdiag" /\ m.tool = n.tool /\ m.source = n.source /\ m.todo = n.todo
        /\ m.failed = n.failed /\ m.missing = n.missing
        /\ m.from = n.from /\ m.landed = n.landed /\ m.judged = n.judged /\ m.made = n.made
        /\ m.truly = n.truly /\ m.upset = n.upset /\ m.builds = n.builds /\ m.undeleted = n.undeleted
    BY <1>3 DEF AgentState, Step, Continue
  <1>5. "build" \in ErrFile
    BY DEF ErrFile
  <1> HIDE DEF m
  <1>6. /\ g \in GuestState /\ g.src = guest.src /\ g.obj = guest.obj /\ g.app = guest.app /\ g.folder = guest.folder
        /\ g.toolserver = guest.toolserver
    BY <1>2, <1>3, <1>5, SaidIs
  <1>7. Moves(guest, g) /\ \A t \in Source : g.src[t] <= newest
    BY <1>3, <1>6 DEF Moves, BuildInd, GuestState
  <1>8. Behind(m, g) /\ Ordered(m) /\ FolderAsked(m, g)
    BY <1>3, <1>4, <1>6 DEF AgentInv, Behind, Ordered, FolderAsked
  <1>9. Succeeded(m) /\ Failed(m)
    BY <1>4 DEF Succeeded, Failed, Outside
  <1>10. Cleared(m) = Cleared(n) /\ \A s, v : Current(m, s, v) <=> Current(n, s, v)
    BY <1>3, <1>4 DEF Cleared, Current, Outside
  <1>11. InFlight(m, g)
    BY <1>3, <1>4, <1>6, <1>10 DEF AgentInv, InFlight
  <1>12. Calm(m, g)
    BY <1>3, <1>4, <1>6 DEF AgentInv, Calm, Cause, Outside
  <1> QED
    BY <1>2, <1>4, <1>6, <1>7, <1>8, <1>9, <1>11, <1>12, AgentIs, QuietKeeps

\* The diagnostics of Rez, by which it is judged.
LEMMA RezDiagKeeps ==
    ASSUME BuildInd, NEW a \in Agent, RezDiag(a)
    PROVE  BuildInd'
  <1> DEFINE n == agent[a]
  <1>1. PICK f \in Fates(guest.toolserver) : Handled(a, f, guest, Finish(n, ~Diagnose(n, f, guest)))
    BY Zenon DEF RezDiag, Request, Handled, Charged, Unchanged
  <1> DEFINE ok == ~Diagnose(n, f, guest)
  <1>2. n \in AgentState /\ n.pc = "rezdiag" /\ AgentInv(n, guest) /\ guest \in GuestState
    BY AgentIs DEF RezDiag
  <1>3. ok \in BOOLEAN /\ Handled(a, f, guest, Finish(n, ok))
    BY <1>1
  <1> HIDE DEF ok
  <1>4. n.tool = "build" /\ ~n.failed /\ Behind(n, guest)
    BY <1>2 DEF AgentInv, Ordered
  <1>5. ~n.undeleted => \A s \in n.judged : Current(n, s, n.made[s])
    BY <1>2 DEF AgentInv, InFlight, AgentState
  <1>6. n.missing => n.truly \/ "folder" \in n.upset
    BY <1>2 DEF AgentInv, FolderAsked
  <1> QED
    BY <1>2, <1>3, <1>4, <1>5, <1>6, AgentIs, FinishKeeps

-----------------------------------------------------------------------------
(* The steps outside a compile or build *)

\* A request between two calls that leaves its agent as it was.
LEMMA AsideKeeps ==
    ASSUME BuildInd, NEW a \in Agent, NEW there \in BOOLEAN, NEW f \in Fates(there), NEW g \in GuestState,
           agent[a].pc = "idle", Handled(a, f, g, agent[a]), Moves(guest, g),
           guest.toolserver => g.toolserver, \A s \in Source : g.src[s] <= newest
    PROVE  BuildInd'
  <1> DEFINE n == agent[a]
  <1>1. n \in AgentState /\ AgentInv(n, guest) /\ guest \in GuestState
    BY AgentIs
  <1>2. Behind(n, g)
    BY <1>1 DEF AgentInv, Behind, Moves, AgentState, GuestState, Version
  <1>3. InFlight(n, g) /\ Calm(n, g)
    BY DEF InFlight, Cleared, Calm, Outside
  <1>4. Ordered(n) /\ Succeeded(n) /\ Failed(n) /\ FolderAsked(n, g)
    BY <1>1 DEF AgentInv, FolderAsked
  <1> QED
    BY <1>1, <1>2, <1>3, <1>4, AgentIs, QuietKeeps

\* A command line.
LEMMA ExecuteKeeps ==
    ASSUME BuildInd, NEW a \in Agent, Execute(a)
    PROVE  BuildInd'
  <1> DEFINE outs(s) ==
                {[guest EXCEPT !.obj[s] = 0], [guest EXCEPT !.folder = TRUE]} \union
                (IF guest.src[s] \in Good /\ guest.folder THEN {[guest EXCEPT !.obj[s] = guest.src[s]]} ELSE {})
  <1>1. PICK s \in Source, f \in Fates(guest.toolserver) :
            \E g \in (IF f.ran THEN outs(s) ELSE {guest}) : Handled(a, f, g, agent[a])
    BY Zenon DEF Execute, Request, Handled, Charged
  <1>2. PICK g : g \in (IF f.ran THEN outs(s) ELSE {guest}) /\ Handled(a, f, g, agent[a])
    BY <1>1
  <1>3. guest \in GuestState /\ agent[a].pc = "idle" /\ guest.obj \in [Source -> Version]
        /\ guest.src \in [Source -> 1..MaxVersion]
    BY AgentIs DEF Execute, GuestState
  <1>4. ASSUME NEW v \in {0, guest.src[s]}
        PROVE  LET h == [guest EXCEPT !.obj[s] = v] IN h \in GuestState /\ Moves(guest, h)
                    /\ h.src = guest.src /\ h.toolserver = guest.toolserver
    <2> DEFINE h == [guest EXCEPT !.obj[s] = v]
    <2>1. [guest.obj EXCEPT ![s] = v] \in [Source -> Version]
      BY <1>3, BuildAssumption DEF Version, BuildAssumption
    <2>2. /\ h \in GuestState /\ h.src = guest.src /\ h.toolserver = guest.toolserver
          /\ h.obj = [guest.obj EXCEPT ![s] = v] /\ h.app = guest.app
      BY <1>3, <2>1 DEF GuestState
    <2> HIDE DEF h
    <2>3. Moves(guest, h)
      BY <1>3, <2>2 DEF Moves, GuestState
    <2> QED
      BY <2>2, <2>3 DEF h
  <1>5. LET h == [guest EXCEPT !.folder = TRUE] IN h \in GuestState /\ Moves(guest, h)
            /\ h.src = guest.src /\ h.toolserver = guest.toolserver
    <2> DEFINE h == [guest EXCEPT !.folder = TRUE]
    <2>1. PICK b \in BOOLEAN : b /\ h = [guest EXCEPT !.folder = b]
      BY Zenon
    <2> HIDE DEF h
    <2>2. h \in GuestState /\ h.src = guest.src /\ h.obj = guest.obj /\ h.app = guest.app /\ h.toolserver = guest.toolserver
      BY <1>3, <2>1 DEF GuestState
    <2>3. Moves(guest, h)
      BY <1>3, <2>2 DEF Moves, GuestState
    <2> QED
      BY <2>2, <2>3 DEF h
  <1>6. g = guest \/ g = [guest EXCEPT !.folder = TRUE] \/ \E v \in {0, guest.src[s]} : g = [guest EXCEPT !.obj[s] = v]
    BY Zenon, <1>2
  <1>7. g \in GuestState /\ Moves(guest, g) /\ g.src = guest.src /\ g.toolserver = guest.toolserver
    BY <1>4, <1>5, <1>6, AgentIs
  <1> QED
    BY <1>2, <1>3, <1>7, AgentIs, AsideKeeps DEF BuildInd

\* A compile whose object nobody looks for.
LEMMA CompileUnverifiedKeeps ==
    ASSUME BuildInd, NEW a \in Agent, CompileUnverified(a)
    PROVE  BuildInd'
  <1> DEFINE n == agent[a]
             t == CompileNoted(n.term, "unknown")
             m == [n EXCEPT !.builds = @ + 1, !.judged = {}, !.term = t]
  <1>1. PICK f \in Fates(guest.toolserver) : Handled(a, f, guest, m)
    BY Zenon DEF CompileUnverified, Request, Handled, Charged, Unchanged
  <1>2. n \in AgentState /\ n.pc = "idle" /\ n.builds < MaxBuilds[a] /\ AgentInv(n, guest) /\ MaxBuilds[a] \in Nat
    BY AgentIs DEF CompileUnverified
  <1>3. t \in TerminationState /\ t.verdict = "unknown"
    BY <1>2, NotedIs DEF AgentState, Verdict
  <1> HIDE DEF t
  <1>4. /\ m \in AgentState /\ m.pc = "idle" /\ m.tool = n.tool /\ m.missing = n.missing
        /\ m.from = n.from /\ m.landed = n.landed /\ m.term = t
        /\ m.truly = n.truly /\ m.upset = n.upset /\ m.builds = n.builds + 1
    <2>1. n.builds + 1 \in Nat /\ m = [n EXCEPT !.builds = n.builds + 1, !.judged = {}, !.term = t]
      BY <1>2 DEF AgentState
    <2>2. m \in AgentState
      BY <1>2, <1>3, <2>1 DEF AgentState
    <2> QED
      BY <1>2, <2>1, <2>2 DEF AgentState
  <1> HIDE DEF m
  <1>5. Ending(m.term) \notin {"recompiled_ok", "recompiled_failed"}
    BY <1>3, <1>4 DEF Ending
  <1>6. Behind(m, guest) /\ Ordered(m) /\ FolderAsked(m, guest)
    BY <1>2, <1>4 DEF AgentInv, Behind, Ordered, FolderAsked
  <1>7. Succeeded(m) /\ Failed(m) /\ InFlight(m, guest) /\ Calm(m, guest)
    BY <1>4, <1>5 DEF Succeeded, Failed, InFlight, Cleared, Calm, Outside
  <1>8. m.builds <= MaxBuilds[a]
    BY <1>2, <1>4 DEF AgentState
  <1> QED
    BY <1>1, <1>4, <1>6, <1>7, <1>8, AgentIs, LookKeeps

\* ToolServer is launched.
LEMMA LaunchKeeps ==
    ASSUME BuildInd, NEW a \in Agent, Launch(a)
    PROVE  BuildInd'
  <1> DEFINE n == agent[a]
             d == [guest EXCEPT !.toolserver = TRUE]
             m == [Continue(n, "echo") EXCEPT !.echoes = 0]
  <1>1. PICK f \in Fates(TRUE) : \E g \in (IF f.ran THEN {d} ELSE {guest}) :
            Handled(a, f, g, IF f.answered THEN m ELSE n)
    BY Zenon DEF Launch, Request, Handled, Charged
  <1>2. PICK g : g = (IF f.ran THEN d ELSE guest) /\ Handled(a, f, g, IF f.answered THEN m ELSE n)
    BY <1>1
  <1>3. n \in AgentState /\ n.pc = "idle" /\ AgentInv(n, guest) /\ guest \in GuestState
    BY AgentIs DEF Launch
  <1>4. PICK b \in BOOLEAN : b /\ d = [guest EXCEPT !.toolserver = b]
    BY Zenon
  <1> HIDE DEF d
  <1>5. /\ g \in GuestState /\ g.src = guest.src /\ g.obj = guest.obj /\ g.app = guest.app
        /\ guest.toolserver => g.toolserver
    BY <1>2, <1>3, <1>4 DEF GuestState
  <1>6. Moves(guest, g) /\ \A s \in Source : g.src[s] <= newest
    BY <1>3, <1>5 DEF Moves, GuestState, BuildInd
  <1>7. CASE ~f.answered
    BY <1>2, <1>3, <1>5, <1>6, <1>7, AsideKeeps
  <1>8. CASE f.answered
    <2>1. /\ m \in AgentState /\ m.pc = "echo" /\ m.tool = n.tool /\ m.missing = n.missing /\ m.failed = n.failed
          /\ m.from = n.from /\ m.landed = n.landed /\ m.term = n.term /\ m.judged = n.judged /\ m.made = n.made
          /\ m.truly = n.truly /\ m.upset = n.upset /\ m.builds = n.builds /\ m.undeleted = n.undeleted /\ m.echoes = 0
      <3>1. 0 \in 0..MaxEchoes /\ m = [n EXCEPT !.pc = "echo", !.echoes = 0]
        BY <1>3, BuildAssumption DEF BuildAssumption, Continue, AgentState
      <3>2. [n EXCEPT !.pc = "echo"] \in AgentState
        BY <1>3 DEF AgentState, Step
      <3>3. m = [[n EXCEPT !.pc = "echo"] EXCEPT !.echoes = 0]
        BY <1>3, <3>1 DEF AgentState
      <3>4. m \in AgentState
        BY <3>1, <3>2, <3>3 DEF AgentState
      <3> QED
        BY <1>3, <3>1, <3>4 DEF AgentState
    <2>2. Handled(a, f, g, m)
      BY <1>2, <1>8
    <2> HIDE DEF m
    <2>3. Behind(m, g) /\ Ordered(m) /\ FolderAsked(m, g)
      BY <1>3, <1>5, <2>1, BuildAssumption DEF AgentInv, Behind, Ordered, FolderAsked, BuildAssumption
    <2>4. (Cause(m) <=> Cause(n)) /\ \A s, v : Current(m, s, v) <=> Current(n, s, v)
      BY <2>1 DEF Cause, Current
    <2>5. Succeeded(m) /\ Failed(m)
      BY <1>3, <2>1, <2>4 DEF AgentInv, Succeeded, Failed, Outside
    <2>6. InFlight(m, g) /\ Calm(m, g)
      BY <2>1 DEF InFlight, Cleared, Calm, Outside
    <2> QED
      BY <1>5, <1>6, <2>1, <2>2, <2>3, <2>5, <2>6, AgentIs, QuietKeeps
  <1> QED
    BY <1>7, <1>8

\* It is asked whether it answers.
LEMMA EchoKeeps ==
    ASSUME BuildInd, NEW a \in Agent, Echo(a)
    PROVE  BuildInd'
  <1> DEFINE n == agent[a]
  <1>1. PICK f \in Fates(guest.toolserver) :
            Handled(a, f, guest, IF f.answered \/ n.echoes + 1 = MaxEchoes THEN Continue(n, "idle")
                                 ELSE [n EXCEPT !.echoes = @ + 1])
    BY Zenon DEF Echo, Request, Handled, Charged, Unchanged
  <1> DEFINE m == IF f.answered \/ n.echoes + 1 = MaxEchoes THEN Continue(n, "idle") ELSE [n EXCEPT !.echoes = @ + 1]
  <1>2. n \in AgentState /\ n.pc = "echo" /\ AgentInv(n, guest) /\ guest \in GuestState
    BY AgentIs DEF Echo
  <1>3. n.echoes \in 0..MaxEchoes /\ n.echoes < MaxEchoes /\ MaxEchoes \in Nat
    BY <1>2, BuildAssumption DEF AgentInv, Ordered, AgentState, BuildAssumption
  <1>4. /\ m \in AgentState /\ m.pc \in Outside /\ m.tool = n.tool /\ m.missing = n.missing /\ m.failed = n.failed
        /\ m.from = n.from /\ m.landed = n.landed /\ m.term = n.term /\ m.judged = n.judged /\ m.made = n.made
        /\ m.truly = n.truly /\ m.upset = n.upset /\ m.builds = n.builds /\ m.undeleted = n.undeleted
        /\ m.pc = "echo" => m.echoes < MaxEchoes
    <2>1. CASE f.answered \/ n.echoes + 1 = MaxEchoes
      BY <1>2, <2>1 DEF AgentState, Step, Continue, Outside
    <2>2. CASE ~(f.answered \/ n.echoes + 1 = MaxEchoes)
      BY <1>2, <1>3, <2>2 DEF AgentState, Outside
    <2> QED
      BY <2>1, <2>2
  <1> HIDE DEF m
  <1>5. Behind(m, guest) /\ Ordered(m) /\ FolderAsked(m, guest)
    BY <1>2, <1>4 DEF AgentInv, Behind, Ordered, FolderAsked, Outside
  <1>6. (Cause(m) <=> Cause(n)) /\ \A s, v : Current(m, s, v) <=> Current(n, s, v)
    BY <1>4 DEF Cause, Current
  <1>7. Succeeded(m) /\ Failed(m)
    BY <1>2, <1>4, <1>6 DEF AgentInv, Succeeded, Failed, Outside
  <1>8. InFlight(m, guest) /\ Calm(m, guest)
    BY <1>4 DEF InFlight, Cleared, Calm, Outside
  <1> QED
    BY <1>1, <1>4, <1>5, <1>7, <1>8, AgentIs, LookKeeps DEF m

\* A write, which the watch is told of whatever became of it.
LEMMA WriteFileKeeps ==
    ASSUME BuildInd, NEW a \in Agent, NEW s \in Source, WriteFile(a, s)
    PROVE  BuildInd'
  <1> DEFINE n == agent[a]
             v == newest + 1
             t == WriteNoted(n.term)
  <1>1. PICK f \in Fates(TRUE) :
            /\ guest' = IF f.ran THEN [guest EXCEPT !.src[s] = v] ELSE guest
            /\ agent' = [Disturbed(a, f.ran) EXCEPT ![a].term = WriteNoted(@),
                                                    ![a].landed[s] = IF f.ran THEN v ELSE @]
            /\ faults' = faults + f.fault /\ newest' = v
    BY Zenon DEF WriteFile
  <1>2. /\ n \in AgentState /\ n.pc = "idle" /\ AgentInv(n, guest) /\ guest \in GuestState
        /\ newest < MaxVersion /\ newest \in 1..MaxVersion /\ MaxVersion \in Nat
    BY AgentIs, BuildAssumption DEF WriteFile, BuildTypeOK, BuildAssumption
  <1>3. f \in Fate /\ faults' \in 0..MaxFaults
    BY <1>1, AgentIs, FateIs
  <1>4. v \in 1..MaxVersion /\ \A z \in Source : guest.src[z] \in 1..MaxVersion /\ guest.src[z] <= newest
    BY <1>2 DEF GuestState, BuildInd
  <1>5. /\ guest' \in GuestState /\ guest'.obj = guest.obj /\ guest'.app = guest.app
        /\ guest'.toolserver = guest.toolserver /\ (~f.ran => guest' = guest)
        /\ guest'.src = IF f.ran THEN [guest.src EXCEPT ![s] = v] ELSE guest.src
    <2>1. [guest.src EXCEPT ![s] = v] \in [Source -> 1..MaxVersion]
      BY <1>2, <1>4 DEF GuestState
    <2> QED
      BY <1>1, <1>2, <2>1 DEF GuestState
  <1> HIDE DEF v
  <1>6. \A z \in Source : guest'.src[z] >= guest.src[z] /\ guest'.src[z] <= newest' /\ (f.ran => guest'.src[s] = v)
    BY <1>1, <1>2, <1>4, <1>5 DEF GuestState, v
  <1>7. Moves(guest, guest')
    BY <1>2, <1>5, <1>6 DEF Moves
  <1>8. t \in TerminationState /\ t.pending
    BY Zenon DEF WriteNoted, TerminationState, Verdict
  <1> DEFINE l == [n.landed EXCEPT ![s] = IF f.ran THEN v ELSE n.landed[s]]
             m == [n EXCEPT !.term = t, !.landed = l]
  <1>9. l \in [Source -> Version]
    BY <1>2, <1>4 DEF AgentState, Version
  <1>10. /\ agent' = [o \in Agent |-> IF o = a THEN m ELSE Disturbed(a, f.ran)[o]]
    <2>1. Disturbed(a, f.ran)[a] = n /\ DOMAIN Disturbed(a, f.ran) = Agent
      BY DEF Disturbed
    <2>2. agent' = [Disturbed(a, f.ran) EXCEPT ![a] = [n EXCEPT !.term = WriteNoted(n.term),
                                                        !.landed[s] = IF f.ran THEN v ELSE n.landed[s]]]
      BY <1>1, <1>2, <2>1, Zenon
    <2>3. [n EXCEPT !.term = WriteNoted(n.term), !.landed[s] = IF f.ran THEN v ELSE n.landed[s]] = m
      BY <1>2 DEF AgentState
    <2> HIDE DEF m
    <2> QED
      BY <2>1, <2>2, <2>3 DEF Disturbed
  <1> HIDE DEF t, l
  <1>11. /\ m \in AgentState /\ m.pc = "idle" /\ m.tool = n.tool /\ m.missing = n.missing /\ m.failed = n.failed
         /\ m.from = n.from /\ m.landed = l /\ m.term = t /\ m.judged = n.judged /\ m.made = n.made
         /\ m.truly = n.truly /\ m.upset = n.upset /\ m.builds = n.builds /\ m.undeleted = n.undeleted
    BY <1>2, <1>8, <1>9 DEF AgentState
  <1> HIDE DEF m
  <1>12. AgentInv(m, guest')
    <2>1. Behind(m, guest')
      <3>1. ASSUME NEW z \in Source PROVE m.landed[z] <= guest'.src[z] /\ m.from[z] <= guest'.src[z]
        <4>1. n.landed[z] <= guest.src[z] /\ n.from[z] <= guest.src[z] /\ n.landed[z] \in Nat /\ n.from[z] \in Nat
          BY <1>2 DEF AgentInv, Behind, AgentState, Version
        <4>2. l[z] = IF f.ran /\ z = s THEN v ELSE n.landed[z]
          BY <1>2 DEF l, AgentState
        <4>3. guest.src[z] \in Nat /\ guest'.src[z] \in Nat
          BY <1>2, <1>5 DEF GuestState
        <4> QED
          BY <1>4, <1>6, <1>11, <4>1, <4>2, <4>3
      <3> QED
        BY <3>1 DEF Behind
    <2>2. Ordered(m) /\ FolderAsked(m, guest')
      BY <1>2, <1>11 DEF AgentInv, Ordered, FolderAsked
    <2>3. Ending(m.term) \notin {"recompiled_ok", "recompiled_failed"}
      BY <1>8, <1>11 DEF Ending
    <2>4. Succeeded(m) /\ Failed(m) /\ InFlight(m, guest') /\ Calm(m, guest')
      BY <1>11, <2>3 DEF Succeeded, Failed, InFlight, Cleared, Calm, Outside
    <2> QED
      BY <2>1, <2>2, <2>4 DEF AgentInv
  <1>13. ASSUME NEW o \in Agent, o # a
         PROVE  agent'[o] \in AgentState /\ AgentInv(agent'[o], guest') /\ agent'[o].builds = agent[o].builds
    <2>1. agent[o] \in AgentState /\ AgentInv(agent[o], guest) /\ Stage(o) \in SUBSET {"step", "folder"} /\ Stage(o) # {}
      BY AgentIs DEF Stage
    <2>2. CASE f.ran /\ agent[o].pc # "idle"
      <3> DEFINE u == agent[o].upset \union Stage(o)
      <3>1. u \in SUBSET {"step", "folder"}
        BY <2>1 DEF AgentState
      <3>2. agent'[o] = [agent[o] EXCEPT !.upset = u]
        BY <1>10, <1>13, <2>2 DEF Disturbed
      <3> HIDE DEF u
      <3>3. AgentInv([agent[o] EXCEPT !.upset = u], guest')
        BY <1>2, <1>5, <1>7, <2>1, <3>1, OthersKeep DEF u
      <3> QED
        BY <2>1, <3>1, <3>2, <3>3 DEF AgentState
    <2>3. CASE ~(f.ran /\ agent[o].pc # "idle")
      <3>1. agent'[o] = agent[o]
        BY <1>10, <1>13, <2>3 DEF Disturbed
      <3>2. agent[o].upset \in SUBSET {"step", "folder"} /\ agent[o] = [agent[o] EXCEPT !.upset = agent[o].upset]
        BY <2>1 DEF AgentState
      <3>3. AgentInv([agent[o] EXCEPT !.upset = agent[o].upset], guest')
        BY <1>2, <1>5, <1>7, <2>1, <2>3, <3>2, OthersKeep
      <3> QED
        BY <2>1, <3>1, <3>2, <3>3
    <2> QED
      BY <2>2, <2>3
  <1>14. \A o \in Agent : agent'[o] \in AgentState /\ AgentInv(agent'[o], guest') /\ agent'[o].builds <= MaxBuilds[o]
    BY <1>10, <1>11, <1>12, <1>13, AgentIs
  <1>15. agent' = [o \in Agent |-> agent'[o]]
    BY <1>10
  <1>16. BuildTypeOK'
    BY <1>1, <1>3, <1>4, <1>5, <1>14, <1>15 DEF BuildTypeOK, v
  <1> QED
    BY <1>6, <1>14, <1>16 DEF BuildInd

\* A compile or a build begins, or ends for want of a connection.
LEMMA BeginKeeps ==
    ASSUME BuildInd, NEW a \in Agent, NEW tool \in ErrFile, NEW sources \in SUBSET Source,
           tool = "build" => sources = Source, Begin(a, tool, sources)
    PROVE  BuildInd'
  <1> DEFINE n == agent[a]
             m(s, c) == [n EXCEPT !.tool = tool, !.source = s, !.todo = sources \ {s},
                                  !.builds = @ + 1, !.failed = FALSE, !.errors = FALSE,
                                  !.missing = FALSE, !.from = guest.src, !.judged = {},
                                  !.made = Nowhere, !.undeleted = FALSE, !.truly = ~guest.folder,
                                  !.upset = IF guest.toolserver /\ c THEN {} ELSE {"step"}]
  <1>1. PICK c \in Reached, s \in sources :
            agent' = [agent EXCEPT ![a] = IF c THEN Continue(m(s, c), "delete")
                                          ELSE [m(s, c) EXCEPT !.term = CompileNoted(@, Unsent(tool))]]
    BY Zenon DEF Begin
  <1>2. /\ n \in AgentState /\ n.pc = "idle" /\ n.builds < MaxBuilds[a] /\ AgentInv(n, guest) /\ guest \in GuestState
        /\ MaxBuilds[a] \in Nat /\ s \in Source /\ c \in BOOLEAN /\ UNCHANGED <<guest, newest, faults>>
    BY AgentIs DEF Begin, Reached
  <1> DEFINE k == m(s, c)
             b == n.builds + 1
             u == IF guest.toolserver /\ c THEN {} ELSE {"step"}
             w == ~guest.folder
  <1>3. /\ b \in Nat /\ b <= MaxBuilds[a] /\ u \in SUBSET {"step", "folder"} /\ w \in BOOLEAN
        /\ guest.src \in [Source -> Version] /\ Nowhere \in [Source -> Version]
    BY <1>2, BuildAssumption DEF AgentState, GuestState, Version, Nowhere, BuildAssumption
  <1>4. PICK no \in BOOLEAN : ~no /\ k = [n EXCEPT !.tool = tool, !.source = s, !.todo = sources \ {s},
                                  !.builds = b, !.failed = no, !.errors = no,
                                  !.missing = no, !.from = guest.src, !.judged = {},
                                  !.made = Nowhere, !.undeleted = no, !.truly = w, !.upset = u]
    BY Zenon
  <1> HIDE DEF k, b, w, u
  <1>5. /\ k \in AgentState /\ k.pc = "idle" /\ k.tool = tool /\ k.source = s /\ k.todo = sources \ {s} /\ k.builds = b
        /\ ~k.failed /\ ~k.missing /\ k.from = guest.src /\ k.landed = n.landed /\ k.judged = {}
        /\ ~k.undeleted /\ k.truly = w /\ k.upset = u
    BY <1>2, <1>3, <1>4 DEF AgentState
  <1>6. Behind(k, guest)
    BY <1>2, <1>5 DEF AgentInv, Behind, GuestState
  <1>7. ASSUME NEW r \in AgentState, agent' = [agent EXCEPT ![a] = r], r.builds = b, AgentInv(r, guest)
        PROVE  BuildInd'
    <2>1. \A o \in Agent : agent'[o] = IF o = a THEN r ELSE agent[o]
      BY <1>7, AgentIs DEF BuildTypeOK
    <2>2. \A o \in Agent : agent'[o] \in AgentState /\ AgentInv(agent'[o], guest) /\ agent'[o].builds <= MaxBuilds[o]
      BY <1>3, <1>7, <2>1, AgentIs
    <2>3. agent' \in [Agent -> AgentState]
      BY <1>7, AgentIs DEF BuildTypeOK
    <2>4. BuildTypeOK'
      BY <1>2, <2>2, <2>3, AgentIs DEF BuildTypeOK
    <2> QED
      BY <1>2, <2>2, <2>4 DEF BuildInd
  <1>8. CASE c
    <2> DEFINE r == Continue(k, "delete")
    <2>1. /\ r \in AgentState /\ r.pc = "delete" /\ r.tool = tool /\ r.source = s /\ r.todo = sources \ {s} /\ r.builds = b
          /\ ~r.failed /\ ~r.missing /\ r.from = k.from /\ r.landed = k.landed /\ r.judged = {}
          /\ r.truly = w /\ r.upset = u
      BY <1>5 DEF AgentState, Step, Continue
    <2>2. agent' = [agent EXCEPT ![a] = r]
      BY <1>1, <1>8 DEF k
    <2> HIDE DEF r
    <2>3. Behind(r, guest) /\ Ordered(r) /\ FolderAsked(r, guest) /\ Succeeded(r) /\ Failed(r)
      BY <1>6, <2>1 DEF Behind, Ordered, FolderAsked, Succeeded, Failed, Outside
    <2>4. InFlight(r, guest)
      BY <2>1 DEF InFlight, Cleared, Outside
    <2>5. Calm(r, guest)
      BY <1>2, <1>5, <1>8, <2>1 DEF Calm, GuestState, u, w
    <2>6. AgentInv(r, guest)
      BY <2>3, <2>4, <2>5 DEF AgentInv
    <2> QED
      BY <1>7, <2>1, <2>2, <2>6
  <1>9. CASE ~c
    <2> DEFINE t == CompileNoted(k.term, Unsent(tool))
               r == [k EXCEPT !.term = t]
    <2>1. t \in TerminationState /\ t.verdict = Unsent(tool)
      BY <1>5, NotedIs DEF AgentState, Unsent, Verdict
    <2>2. agent' = [agent EXCEPT ![a] = r]
      BY <1>1, <1>9 DEF k
    <2> HIDE DEF t
    <2>3. /\ r \in AgentState /\ r.pc = "idle" /\ r.tool = tool /\ r.builds = b /\ r.term = t
          /\ ~r.failed /\ ~r.missing /\ r.from = k.from /\ r.landed = k.landed /\ r.judged = {} /\ r.upset = u
      BY <1>5, <2>1 DEF AgentState
    <2> HIDE DEF r
    <2>4. u # {}
      BY <1>9 DEF u
    <2>5. Behind(r, guest) /\ Ordered(r) /\ FolderAsked(r, guest) /\ Succeeded(r) /\ Failed(r)
      BY <1>6, <2>3, <2>4 DEF Behind, Ordered, FolderAsked, Succeeded, Failed, Outside
    <2>6. InFlight(r, guest) /\ Calm(r, guest)
      BY <2>3 DEF InFlight, Cleared, Calm, Outside
    <2>7. AgentInv(r, guest)
      BY <2>5, <2>6 DEF AgentInv
    <2> QED
      BY <1>7, <2>2, <2>3, <2>7
  <1> QED
    BY <1>2, <1>8, <1>9

\* ToolServer dies.
LEMMA DieKeeps ==
    ASSUME BuildInd, Die
    PROVE  BuildInd'
  <1>1. PICK no \in BOOLEAN : ~no /\ guest' = [guest EXCEPT !.toolserver = no]
    BY Zenon DEF Die
  <1>2. guest \in GuestState /\ BuildTypeOK
    BY DEF BuildInd, BuildTypeOK
  <1>3. /\ guest' \in GuestState /\ guest'.src = guest.src /\ guest'.obj = guest.obj /\ guest'.app = guest.app
        /\ guest'.folder = guest.folder
    BY <1>1, <1>2 DEF GuestState
  <1>4. newest' = newest /\ faults' \in 0..MaxFaults
    BY <1>2, BuildAssumption DEF Die, BuildTypeOK, BuildAssumption
  <1>5. ASSUME NEW o \in Agent
        PROVE  agent'[o] \in AgentState /\ AgentInv(agent'[o], guest') /\ agent'[o].builds = agent[o].builds
    <2> DEFINE n == agent[o]
               m == [n EXCEPT !.upset = @ \union Stage(o)]
    <2>1. n \in AgentState /\ AgentInv(n, guest) /\ Stage(o) \in SUBSET {"step", "folder"} /\ Stage(o) # {}
      BY AgentIs DEF Stage
    <2>2. CASE n.pc = "idle"
      <3>1. agent'[o] = n
        BY <2>2 DEF Die
      <3>2. Behind(n, guest') /\ FolderAsked(n, guest')
        BY <1>3, <2>1, <2>2 DEF AgentInv, Behind, FolderAsked
      <3>3. InFlight(n, guest') /\ Calm(n, guest')
        BY <2>2 DEF InFlight, Cleared, Calm, Outside
      <3> QED
        BY <2>1, <3>1, <3>2, <3>3 DEF AgentInv
    <2>3. CASE n.pc # "idle"
      <3>1. agent'[o] = m
        BY <2>3, Zenon DEF Die
      <3>2. /\ m \in AgentState /\ m.pc = n.pc /\ m.tool = n.tool /\ m.source = n.source /\ m.todo = n.todo
            /\ m.failed = n.failed /\ m.missing = n.missing /\ m.term = n.term /\ m.echoes = n.echoes
            /\ m.from = n.from /\ m.landed = n.landed /\ m.judged = n.judged /\ m.made = n.made
            /\ m.truly = n.truly /\ m.upset = n.upset \union Stage(o) /\ m.builds = n.builds /\ m.undeleted = n.undeleted
        BY <2>1 DEF AgentState
      <3> HIDE DEF m
      <3>3. Behind(m, guest') /\ Ordered(m)
        BY <1>3, <2>1, <3>2 DEF AgentInv, Behind, Ordered
      <3>4. Cleared(m) = Cleared(n) /\ \A s, v : Current(m, s, v) <=> Current(n, s, v)
        BY <3>2 DEF Cleared, Current
      <3>5. InFlight(m, guest') /\ Succeeded(m)
        BY <1>3, <2>1, <3>2, <3>4 DEF AgentInv, InFlight, Succeeded
      <3>6. m.upset # {}
        BY <2>1, <3>2
      <3>7. Calm(m, guest') /\ Failed(m)
        BY <3>6 DEF Calm, Failed
      <3>8. FolderAsked(m, guest')
        BY <2>1, <3>2 DEF AgentInv, FolderAsked, Stage
      <3> QED
        BY <3>1, <3>2, <3>3, <3>5, <3>7, <3>8 DEF AgentInv
    <2> QED
      BY <2>2, <2>3
  <1>6. agent' \in [Agent -> AgentState]
    <2>1. agent' = [o \in Agent |-> agent'[o]]
      BY Zenon DEF Die
    <2> QED
      BY <1>5, <2>1
  <1>7. BuildTypeOK'
    BY <1>2, <1>3, <1>4, <1>5, <1>6 DEF BuildTypeOK
  <1> QED
    BY <1>3, <1>4, <1>5, <1>7 DEF BuildInd

-----------------------------------------------------------------------------
(* The theorems of GuestBuild *)

\* A project that has been built before, and agents that have done nothing yet.
LEMMA BuildIndInit ==
    ASSUME BuildInit
    PROVE  BuildInd
  <1> DEFINE old == [s \in Source |-> 1]
             clean == [e \in ErrFile |-> "clean"]
             first(fold, up) == [src |-> old, obj |-> old, app |-> old, err |-> clean, folder |-> fold, toolserver |-> up]
  <1>0. \E fold \in BOOLEAN : guest = first(fold, TRUE)
    BY DEF BuildInit
  <1>1. PICK yes \in BOOLEAN, fold \in BOOLEAN : yes /\ guest = first(fold, yes)
    BY Zenon, <1>0
  <1>2. MaxVersion \in Nat \ {0} /\ MaxFaults \in Nat /\ MaxEchoes \in Nat \ {0} /\ MaxBuilds \in [Agent -> Nat]
    BY BuildAssumption DEF BuildAssumption
  <1>3. /\ guest \in GuestState /\ guest.src = [s \in Source |-> 1]
    BY <1>1, <1>2 DEF GuestState, Version
  <1>4. newest = 1 /\ faults = 0 /\ agent = [a \in Agent |-> Fresh]
    BY DEF BuildInit
  <1> DEFINE t == NewTermination
             c == CHOOSE s \in Source : TRUE
  <1>5. PICK no \in BOOLEAN :
            ~no /\ Fresh = [pc |-> "idle", tool |-> "compile", source |-> c, todo |-> {},
              failed |-> no, errors |-> no, echoes |-> 0, builds |-> 0, missing |-> no,
              term |-> t, from |-> Nowhere, landed |-> Nowhere,
              judged |-> {}, made |-> Nowhere, undeleted |-> no, truly |-> no, upset |-> {}]
    BY Zenon DEF Fresh
  <1>6. c \in Source /\ Nowhere \in [Source -> Version]
    BY BuildAssumption DEF BuildAssumption, Nowhere, Version
  <1>7. t \in TerminationState /\ ~t.written
    BY Zenon DEF NewTermination, TerminationState, Verdict
  <1> HIDE DEF t, c
  <1>8. /\ Fresh \in AgentState /\ Fresh.pc = "idle" /\ Fresh.landed = Nowhere /\ Fresh.from = Nowhere
        /\ ~Fresh.missing /\ Fresh.builds = 0 /\ Fresh.term = t
    BY <1>2, <1>5, <1>6, <1>7 DEF AgentState, Step, ErrFile
  <1>9. Ending(Fresh.term) = "nothing_written"
    BY <1>7, <1>8 DEF Ending
  <1>10. Behind(Fresh, guest)
    BY <1>3, <1>8 DEF Behind, Nowhere
  <1>11. AgentInv(Fresh, guest)
    BY <1>8, <1>9, <1>10 DEF AgentInv, InFlight, Cleared, Ordered, Calm, Succeeded, Failed, FolderAsked, Outside
  <1>12. BuildTypeOK
    BY <1>2, <1>3, <1>4, <1>8 DEF BuildTypeOK
  <1> QED
    BY <1>3, <1>4, <1>11, <1>12 DEF BuildInd

\* Every step keeps the inductive invariant.
LEMMA BuildIndNext ==
    ASSUME BuildInd, [BuildNext]_buildVars
    PROVE  BuildInd'
  <1>1. CASE \E a \in Agent, s \in Source : WriteFile(a, s)
    BY <1>1, WriteFileKeeps
  <1>2. ASSUME NEW a \in Agent, Compile(a) PROVE BuildInd'
    <2>1. PICK s \in Source : Begin(a, "compile", {s})
      BY <1>2 DEF Compile
    <2>2. {s} \in SUBSET Source /\ "compile" \in ErrFile
      BY DEF ErrFile
    <2> QED
      BY <2>1, <2>2, BeginKeeps
  <1>3. ASSUME NEW a \in Agent, Build(a) PROVE BuildInd'
    <2>1. Source \in SUBSET Source /\ "build" \in ErrFile
      BY DEF ErrFile
    <2> QED
      BY <1>3, <2>1, BeginKeeps DEF Build
  <1>4. ASSUME NEW a \in Agent, CompileStep(a) PROVE BuildInd'
    BY <1>4, DeleteKeeps, ToolKeeps, CatenateKeeps, ExistsKeeps, AliveKeeps, FolderKeeps DEF CompileStep
  <1>5. ASSUME NEW a \in Agent, LinkStep(a) PROVE BuildInd'
    BY <1>5, UnlinkKeeps, LinkAppKeeps, LinkDiagKeeps, LinkedKeeps, RezKeeps, RezDiagKeeps DEF LinkStep
  <1>6. CASE Die
    BY <1>6, DieKeeps
  <1>7. CASE UNCHANGED buildVars
    <2>1. UNCHANGED <<guest, agent, newest, faults>>
      BY <1>7 DEF buildVars
    <2> QED
      BY <2>1 DEF BuildInd, BuildTypeOK
  <1> QED
    BY <1>1, <1>2, <1>3, <1>4, <1>5, <1>6, <1>7, ExecuteKeeps, CompileUnverifiedKeeps, LaunchKeeps, EchoKeeps
    DEF BuildNext

\* It always holds.
LEMMA BuildIndAlways == BuildSpec => []BuildInd
  <1>1. BuildInit => BuildInd
    BY BuildIndInit
  <1>2. BuildInd /\ [BuildNext]_buildVars => BuildInd'
    BY BuildIndNext
  <1> QED
    BY <1>1, <1>2, PTL DEF BuildSpec

\* Types are kept, a verdict "recompiled_failed" of a call that nothing disturbed has its cause in
\* the guest, and a folder is called missing only when it is or when that answer was lost
\* (run_step of host/mpw.py, mac_compile and mac_build).
THEOREM BuildHolds == BuildSpec => []BuildInv
  <1>1. BuildInd => BuildInv
    <2>1. SUFFICES ASSUME BuildInd PROVE BuildInv
      OBVIOUS
    <2>2. ASSUME NEW a \in Agent PROVE agent[a].missing => agent[a].truly \/ "folder" \in agent[a].upset
      BY <2>1, AgentIs DEF AgentInv, FolderAsked
    <2>3. ASSUME NEW a \in Agent, Idle(a), Ending(agent[a].term) = "recompiled_failed", agent[a].upset = {},
                 agent[a].tool = "compile" \/ agent[a].failed
          PROVE  agent[a].truly \/ \E s \in agent[a].judged : agent[a].from[s] \notin Good
      BY <2>1, <2>3, AgentIs DEF AgentInv, Failed, Cause, Idle, Outside
    <2> QED
      BY <2>1, <2>2, <2>3 DEF BuildInv, BuildInd, FailureIsReal, FolderIsMissing
  <1> QED
    BY <1>1, BuildIndAlways, PTL

\* The larger of two numbers is one of them.
LEMMA MaxOfTwo ==
    ASSUME NEW x \in Nat, NEW y \in Nat
    PROVE  Max({x, y}) \in {x, y}
  <1>1. \E z \in {x, y} : \A w \in {x, y} : z >= w
    OBVIOUS
  <1> QED
    BY <1>1, Zenon DEF Max

\* After "recompiled_ok" what the last compile judged is no older than the agent's last write and
\* than the call, for any number of agents on the project, unless a Delete was lost
\* (TerminationWatch of host/loop_guard.py on top of run_step and mac_build).
THEOREM ClosedLoopHolds == BuildSpec => []ClosedLoopIsFresh
  <1>1. BuildInd => ClosedLoopIsFresh
    <2>1. SUFFICES ASSUME BuildInd, NEW a \in Agent, Idle(a), Ending(agent[a].term) = "recompiled_ok",
                          ~agent[a].undeleted, NEW s \in agent[a].judged
                   PROVE  agent[a].made[s] >= Max({agent[a].landed[s], agent[a].from[s]})
      BY DEF ClosedLoopIsFresh
    <2>2. agent[a] \in AgentState /\ Succeeded(agent[a])
      BY <2>1, AgentIs DEF AgentInv
    <2>3. Current(agent[a], s, agent[a].made[s])
      BY <2>1, <2>2 DEF Succeeded, Idle, Outside
    <2>4. s \in Source /\ agent[a].landed[s] \in Nat /\ agent[a].from[s] \in Nat
      BY <2>1, <2>2 DEF AgentState, Version
    <2> QED
      BY <2>3, <2>4, MaxOfTwo DEF Current
  <1> QED
    BY <1>1, BuildIndAlways, PTL

=============================================================================
