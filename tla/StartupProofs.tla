--------------------------- MODULE StartupProofs ----------------------------
(***************************************************************************)
(* What a container's start promises, for every environment, config file   *)
(* and set of databases, and however often it is stopped.                  *)
(***************************************************************************)
EXTENDS Startup, TLAPS

\* What is still true, and of use, at each point of a start.
StartOK ==
  /\ env \in Environment
  /\ pc = "move" => ~Sized(Database)
  /\ pc = "moving" => State(Absolute(Database)) \in {"empty", "partial"}
  /\ pc \in {"own", "load"} /\ Requires => geoip = Database
  /\ pc \in {"open", "list", "serving"} =>
       /\ cfg.DataDir = Abs[DataDir]
       /\ Requires => cfg.GeoIPDatabase = Absolute(Database)
  /\ pc \in {"list", "serving"} /\ Requires => opened = Absolute(Database)

-----------------------------------------------------------------------------
\* Paths are set.
LEMMA PathsAreSet ==
  ASSUME env \in Environment
  PROVE  DataDir # Unset /\ Database # Unset /\ Absolute(Database) # Unset
<1> USE NamesAssumption
<1>1. DataDir \in DOMAIN Abs /\ DataDir # Unset
  <2>1. env["DataDir"] = Unset \/ env["DataDir"] \in DOMAIN Abs
    OBVIOUS
  <2>2. DataDir \in DOMAIN Abs
    BY <2>1 DEF DataDir, Given
  <2> QED BY <2>2
<1>2. Database \in (DOMAIN Abs) \X STRING
  <2>1. <<DataDir, DefaultName>> \in (DOMAIN Abs) \X STRING
    <3>1. ASSUME NEW D, NEW d \in D, NEW n \in STRING
          PROVE  <<d, n>> \in D \X STRING
      OBVIOUS
    <3> QED BY <1>1, <3>1, Zenon
  <2>2. \/ env["GeoIPDatabase"] = Unset
        \/ env["GeoIPDatabase"] \in (DOMAIN Abs) \X STRING
    OBVIOUS
  <2> QED BY <2>1, <2>2 DEF Database, Given
<1>3. Database # Unset
  BY <1>2
<1>4. Database[1] \in DOMAIN Abs /\ Database[2] \in STRING
  BY <1>2
<1>5. Absolute(Database) \in STRING \X STRING
  BY <1>4 DEF Absolute
<1> QED BY <1>1, <1>3, <1>5

\* The environment has the last word in the directory and the database.
LEMMA EnvironmentWins ==
  ASSUME NEW file, NEW environ, LoadConfig(file, environ) # NoConfig
  PROVE  /\ environ.DataDir # Unset =>
              LoadConfig(file, environ).DataDir = Abs[environ.DataDir]
         /\ environ.GeoIPDatabase # Unset =>
              LoadConfig(file, environ).GeoIPDatabase = Absolute(environ.GeoIPDatabase)
<1> DEFINE Setting(c) == ApplyEnvOverrides(c, environ)
<1>1. ASSUME NEW c, DOMAIN c = DOMAIN DefaultConfig
      PROVE  /\ DOMAIN Setting(c) = DOMAIN DefaultConfig
             /\ environ.DataDir # Unset => Setting(c).DataDir = environ.DataDir
             /\ environ.GeoIPDatabase # Unset =>
                  Setting(c).GeoIPDatabase = environ.GeoIPDatabase
  BY <1>1 DEF ApplyEnvOverrides, Variable, Flag, DefaultConfig
<1>2. ASSUME NEW c, DOMAIN c = DOMAIN DefaultConfig
      PROVE  /\ NormalizeConfigPaths(c).DataDir = Abs[c.DataDir]
             /\ c.GeoIPDatabase # Unset =>
                  NormalizeConfigPaths(c).GeoIPDatabase = Absolute(c.GeoIPDatabase)
  BY <1>2 DEF NormalizeConfigPaths, DefaultConfig
<1>3. DOMAIN FromFile(file) = DOMAIN DefaultConfig
  BY DEF FromFile
<1>4. LoadConfig(file, environ) \in
        {NormalizeConfigPaths(Setting(DefaultConfig)),
         NormalizeConfigPaths(Setting(FromFile(file)))}
  BY DEF LoadConfig
<1> QED BY <1>1, <1>2, <1>3, <1>4

-----------------------------------------------------------------------------
LEMMA InitStart == Init => StartOK
BY DEF Init, StartOK

\* A start only goes on from where it may.
LEMMA NextStart == StartOK /\ [Next]_vars => StartOK'
<1> SUFFICES ASSUME StartOK, [Next]_vars PROVE StartOK'
  OBVIOUS
<1> USE DEF StartOK
<1>1. /\ UNCHANGED env
      /\ (DataDir' = DataDir) /\ (Database' = Database) /\ (Requires' = Requires)
  BY DEF Next, Script, Main, vars, Stop, Start, CreateConfig, CopyConfig, KeepConfig,
         SkipDownload, Download, DownloadFails, BeginMove, Moving, EndMove, Finalize,
         Own, Load, OpenGeoIP, Serve, Goto, Exit, DataDir, Database, Requires, Given
<1>2. CASE pc' \in {"down", "config", "copy", "download", "finalize"}
  BY <1>1, <1>2
<1>3. CASE Download
  BY <1>1, <1>3 DEF Download, Goto, files, Sized, State
<1>4. CASE BeginMove
  BY <1>1, <1>4 DEF BeginMove, Put, Goto, State
<1>5. CASE Moving
  BY <1>1, <1>5 DEF Moving, Put, State
<1>6. CASE Finalize
  BY <1>1, <1>6 DEF Finalize, Exit, Goto
<1>7. CASE Own
  BY <1>1, <1>7 DEF Own, Goto
<1>8. CASE Load
  <2>1. CASE LoadConfig(config, Environ) = NoConfig
    BY <1>1, <1>8, <2>1 DEF Load, Exit
  <2>2. CASE LoadConfig(config, Environ) # NoConfig
    <3>1. cfg' = LoadConfig(config, Environ) /\ pc' = "open" /\ pc = "load"
      BY <1>8, <2>2 DEF Load, Goto
    <3>2. Environ.DataDir = DataDir /\ Environ.GeoIPDatabase = geoip
      BY NamesAssumption DEF Environ
    <3>3. cfg'.DataDir = Abs[DataDir]
      BY <2>2, <3>1, <3>2, PathsAreSet, EnvironmentWins
    <3>4. Requires => cfg'.GeoIPDatabase = Absolute(Database)
      BY <2>2, <3>1, <3>2, PathsAreSet, EnvironmentWins
    <3> QED BY <1>1, <3>1, <3>3, <3>4 DEF Absolute
  <2> QED BY <2>1, <2>2
<1>9. CASE OpenGeoIP
  <2>1. pc = "open" /\ cfg.DataDir = Abs[DataDir]
    BY <1>9 DEF OpenGeoIP
  <2>2. Requires => Candidates = {Absolute(Database)}
    BY <2>1, PathsAreSet DEF Candidates
  <2>3. CASE pc' = "down"
    BY <1>1, <2>3
  <2>4. CASE pc' = "list"
    <3>1. UNCHANGED cfg /\ (Requires => opened' = Absolute(Database))
      BY <1>9, <2>2, <2>4 DEF OpenGeoIP, Goto, Exit
    <3> QED BY <1>1, <2>1, <2>4, <3>1 DEF Absolute
  <2> QED BY <1>9, <2>3, <2>4 DEF OpenGeoIP, Goto, Exit
<1>10. CASE Serve
  BY <1>1, <1>10 DEF Serve, Goto, program, Absolute
<1>11. CASE UNCHANGED vars
  BY <1>1, <1>11 DEF vars, files, program, Sized, State, Absolute
<1> QED
  BY <1>2, <1>3, <1>4, <1>5, <1>6, <1>7, <1>8, <1>9, <1>10, <1>11
     DEF Next, Script, Main, Stop, Start, CreateConfig, CopyConfig, KeepConfig,
         SkipDownload, DownloadFails, EndMove, Goto, Exit

LEMMA AlwaysStart == Spec => []StartOK
BY InitStart, NextStart, PTL DEF Spec

-----------------------------------------------------------------------------
\* A server that must have GeoIP serves with the container's database.
THEOREM RequiredIsOpened == Spec => []RequiredMeansOpen
<1>1. StartOK => RequiredMeansOpen
  BY DEF StartOK, RequiredMeansOpen
<1> QED BY <1>1, AlwaysStart, PTL

\* The program's files go where the script made room for them.
THEOREM DirectoryIsPrepared == Spec => []DataDirIsPrepared
<1>1. StartOK => DataDirIsPrepared
  BY DEF StartOK, DataDirIsPrepared
<1> QED BY <1>1, AlwaysStart, PTL

\* Only a move changes databases, and only to where there is none.
THEOREM DatabasesAreKept == Spec => WholeStaysWhole
<1> DEFINE Kept == \A path \in DOMAIN database :
                     database[path] = "whole" => State(path)' = "whole"
<1>1. StartOK /\ [Next]_vars => [Kept]_vars
  <2> SUFFICES ASSUME StartOK, Next PROVE Kept
    BY DEF Kept
  <2>1. CASE BeginMove \/ Moving \/ EndMove
    <3>1. State(Absolute(Database)) # "whole" \/ pc' = "finalize"
      BY <2>1 DEF BeginMove, Moving, EndMove, StartOK, Sized, Goto
    <3>2. \E state : Put(Absolute(Database), state) /\ (pc' = "finalize" => state = "whole")
      BY <2>1 DEF BeginMove, Moving, EndMove, Goto
    <3> QED BY <3>1, <3>2 DEF Put, State
  <2>2. CASE ~(BeginMove \/ Moving \/ EndMove)
    <3>1. UNCHANGED database
      BY <2>2 DEF Next, Script, Main, Stop, Start, CreateConfig, CopyConfig,
         KeepConfig, SkipDownload, Download, DownloadFails, Finalize, Own, Load,
         OpenGeoIP, Serve, Exit, files
    <3> QED BY <3>1 DEF State
  <2> QED BY <2>1, <2>2
<1> QED BY <1>1, AlwaysStart, PTL DEF Spec, WholeStaysWhole

-----------------------------------------------------------------------------
\* The settings of a running program are those of the file and the variables
\* as they are now: nothing of a start touches them once they are loaded.
SettingsOK == pc \in {"open", "list", "serving"} => cfg = LoadConfig(config, Environ)

LEMMA InitSettings == Init => SettingsOK
BY DEF Init, SettingsOK

LEMMA NextSettings == SettingsOK /\ [Next]_vars => SettingsOK'
<1> SUFFICES ASSUME SettingsOK, [Next]_vars, pc' \in {"open", "list", "serving"}
             PROVE  cfg' = LoadConfig(config', Environ')
  BY DEF SettingsOK
<1>1. UNCHANGED <<env, config, geoip>> => UNCHANGED Environ
  BY DEF Environ, DataDir, Given
<1>2. CASE Load
  <2>1. cfg' = LoadConfig(config, Environ) /\ UNCHANGED <<env, config, geoip>>
    BY <1>2 DEF Load, Exit, Goto, files
  <2> QED BY <1>1, <2>1
<1>3. CASE OpenGeoIP \/ Serve \/ UNCHANGED vars
  <2>1. /\ pc \in {"open", "list", "serving"}
        /\ UNCHANGED <<env, config, geoip, cfg>>
    BY <1>3 DEF OpenGeoIP, Serve, Exit, Goto, files, program, vars
  <2> QED BY <1>1, <2>1 DEF SettingsOK
<1> QED
  BY <1>2, <1>3
     DEF Next, Script, Main, Stop, Start, CreateConfig, CopyConfig, KeepConfig,
         SkipDownload, Download, DownloadFails, BeginMove, Moving, EndMove,
         Finalize, Own, Goto, Exit

\* The example sets what is the default anyway, as if it were empty.
LEMMA ExampleIsDefault == FromFile(Empty) = FromFile(Example)
<1> DEFINE S == DOMAIN DefaultConfig
           Bans == {"BannedIPs", "BannedServers"}
<1>1. S = {"Host", "Port", "DataDir", "GeoIPDatabase", "RejectPrivateAddresses",
           "AllowUpdateWithoutOld", "TrustProxyHeaders", "LogRawRequests",
           "BannedIPs", "BannedServers", "PurgeTime", "Debug"}
  BY DEF DefaultConfig
<1>2. \A s \in S : Empty[s] = IF s \in Bans THEN {} ELSE Unset
  BY DEF Empty
<1>3. \A s \in S \ (Bans \cup {"PurgeTime"}) : Example[s] \in {Unset, DefaultConfig[s]}
  <2>1. /\ Example["Host"] = DefaultConfig["Host"]
        /\ Example["Port"] = DefaultConfig["Port"]
        /\ Example["DataDir"] = DefaultConfig["DataDir"]
        /\ Example["GeoIPDatabase"] = Unset
    BY DEF Example, DefaultConfig
  <2>2. /\ Example["RejectPrivateAddresses"] = DefaultConfig["RejectPrivateAddresses"]
        /\ Example["AllowUpdateWithoutOld"] = DefaultConfig["AllowUpdateWithoutOld"]
        /\ Example["TrustProxyHeaders"] = DefaultConfig["TrustProxyHeaders"]
        /\ Example["LogRawRequests"] = DefaultConfig["LogRawRequests"]
        /\ Example["Debug"] = DefaultConfig["Debug"]
    BY DEF Example, DefaultConfig
  <2> HIDE DEF S
  <2> QED BY <1>1, <2>1, <2>2
<1>4. \A s \in Bans : Example[s] = {}
  BY DEF Example
<1>5. Example["PurgeTime"] = "3h"
  BY DEF Example
<1>6. DefaultConfig["PurgeTime"] = 3 * 3600
  BY DEF DefaultConfig
<1> HIDE DEF S
<1>7. ASSUME NEW s \in S PROVE FromFile(Empty)[s] = FromFile(Example)[s]
  <2>1. \A file :
          FromFile(file)[s] =
            IF s = "BannedIPs" THEN file[s]
            ELSE IF s = "BannedServers" THEN {Lower[server] : server \in file[s]}
            ELSE IF file[s] = Unset THEN DefaultConfig[s]
            ELSE IF s = "PurgeTime" THEN ParseDuration[file[s]]
            ELSE file[s]
    BY DEF FromFile, S
  <2>2. CASE s \in Bans
    BY <1>2, <1>4, <2>1, <2>2
  <2>3. CASE s = "PurgeTime"
    BY <1>2, <1>5, <1>6, <2>1, <2>3, ExampleAssumption
  <2>4. CASE s \in S \ (Bans \cup {"PurgeTime"})
    BY <1>2, <1>3, <2>1, <2>4
  <2> QED BY <2>2, <2>3, <2>4
<1> QED BY <1>7 DEF FromFile, S

\* A start that was killed while it copied the example serves with its settings.
THEOREM HalfACopyIsEnough == Spec => []HalfCopiedConfigIsHarmless
<1>1. ASSUME NEW environ PROVE LoadConfig(Empty, environ) = LoadConfig(Example, environ)
  <2> DEFINE Result(settings) ==
               IF settings.PurgeTime = NoConfig THEN NoConfig
               ELSE NormalizeConfigPaths(ApplyEnvOverrides(settings, environ))
  <2>1. ASSUME NEW file, file # Unset, file # Undecodable
        PROVE  LoadConfig(file, environ) = Result(FromFile(file))
    <3>1. CASE FromFile(file).PurgeTime = NoConfig
      BY <2>1, <3>1 DEF LoadConfig
    <3>2. CASE FromFile(file).PurgeTime # NoConfig
      BY <2>1, <3>2 DEF LoadConfig
    <3> QED BY <3>1, <3>2
  <2> HIDE DEF Result
  <2>2. /\ Empty # Unset /\ Empty # Undecodable
        /\ Example # Unset /\ Example # Undecodable
    BY ExampleAssumption
  <2> QED BY <2>1, <2>2, ExampleIsDefault
<1>2. SettingsOK => HalfCopiedConfigIsHarmless
  BY <1>1 DEF SettingsOK, HalfCopiedConfigIsHarmless
<1> QED BY <1>2, InitSettings, NextSettings, PTL DEF Spec
=============================================================================
