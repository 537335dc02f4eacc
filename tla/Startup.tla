------------------------------ MODULE Startup -------------------------------
(***************************************************************************)
(* A container that is started, killed and restarted: docker-entrypoint.sh *)
(* prepares the data directory, the config file and the GeoIP database,    *)
(* then main (src/main.go) loads the settings and opens the database       *)
(* (src/geoip.go).  The files outlive the container.                       *)
(*                                                                         *)
(* Under `set -e' a command that fails ends the start as a kill would: both*)
(* are the action Stop, which leaves files the way they are by then.       *)
(***************************************************************************)
EXTENDS Config

CONSTANTS
  Environment,  \* the variables a container may be given, and if its image has
                \* an example of a config file that can be read
  Contents,     \* the config file it may find
  Databases,    \* the databases it may find, each whole
  Dated,        \* the files that match dbip-country-lite-*.mmdb
  Root,         \* the working directory, where the program looks for them
  Volume,       \* the directories on another file system than /tmp
  NoFile,
  MaxStops      \* bound of kills and failed commands

DefaultName == "dbip-country-lite.mmdb"

\* Names are texts, and neither a text nor a path counts as unset.
ASSUME NamesAssumption ==
  /\ Unset \notin STRING /\ Unset \notin STRING \X STRING
  /\ "/data" \in DOMAIN Abs /\ DOMAIN Abs \subseteq STRING
  /\ DefaultName \in STRING
  /\ Abs \in [DOMAIN Abs -> STRING]
  /\ \A e \in Environment :
       /\ {"DataDir", "GeoIPDatabase", "HasExample"} \subseteq DOMAIN e
       /\ e.HasExample \in BOOLEAN
       /\ e.DataDir = Unset \/ e.DataDir \in DOMAIN Abs
       /\ e.GeoIPDatabase = Unset \/ e.GeoIPDatabase \in (DOMAIN Abs) \X STRING

\* config.example.scfg.
Example ==
  [Host |-> "127.0.0.1", Port |-> "5000", DataDir |-> "/data",
   GeoIPDatabase |-> Unset, RejectPrivateAddresses |-> TRUE,
   AllowUpdateWithoutOld |-> TRUE, TrustProxyHeaders |-> FALSE,
   LogRawRequests |-> FALSE, BannedIPs |-> {}, BannedServers |-> {},
   PurgeTime |-> "3h", Debug |-> FALSE]

\* The example is a config file, as is an empty one, and its "3h" is a duration.
ASSUME ExampleAssumption ==
  /\ Empty \notin {Unset, Undecodable} /\ Example \notin {Unset, Undecodable}
  /\ ParseDuration["3h"] = 3 * 3600

VARIABLES
  env, config, database, \* the variables, the config file, the databases
  rootOnly,              \* the files only root may read
  pc, why,               \* where the start is, and why the last one ended
  geoip,                 \* SERVERLIST_GEOIP_DATABASE as exported
  cfg, opened,           \* the program's settings and database
  stops

files == <<config, database, rootOnly>>
program == <<cfg, opened>>
vars == <<env, files, pc, why, geoip, program, stops>>

\* The script's variables, with their defaults.
Given(variable, default) == IF env[variable] = Unset THEN default ELSE env[variable]

DataDir  == Given("DataDir", "/data")
Database == Given("GeoIPDatabase", <<DataDir, DefaultName>>)

Downloads == Truthy(Given("Download", "true"))
Requires  == Truthy(Given("Require", "false"))

State(path) ==
  IF path \in DOMAIN database THEN database[path] ELSE "missing"

\* (fault) test -e instead of test -s
SizedIfThere(path) == State(Absolute(path)) # "missing"

\* test -s
Sized(path) == State(Absolute(path)) \in {"partial", "whole"}

Init ==
  /\ env \in Environment /\ config \in Contents
  /\ \E there \in Databases :
       database = [path \in there |-> "whole"]
  /\ rootOnly = {} /\ geoip = Unset
  /\ pc = "down" /\ why = "new"
  /\ cfg = NoConfig /\ opened = NoFile
  /\ stops = 0

Goto(l) == pc' = l /\ UNCHANGED <<env, why, stops>>

Exit(reason) ==
  /\ pc' = "down" /\ why' = reason
  /\ cfg' = NoConfig /\ opened' = NoFile /\ geoip' = Unset
  /\ UNCHANGED <<env, files, stops>>

-----------------------------------------------------------------------------
\* docker-entrypoint.sh.  The restart policy is unless-stopped.
Start ==
  /\ pc = "down"
  /\ Goto("config")
  /\ UNCHANGED <<files, geoip, program>>

\* cp creates the file, then fills it.
CreateConfig ==
  /\ pc = "config" /\ config = Unset /\ env.HasExample
  /\ config' = Empty
  /\ Goto("copy")
  /\ UNCHANGED <<database, rootOnly, geoip, program>>

CopyConfig ==
  /\ pc = "copy"
  /\ config' = Example
  /\ Goto("download")
  /\ UNCHANGED <<database, rootOnly, geoip, program>>

KeepConfig ==
  /\ pc = "config" /\ (config # Unset \/ ~env.HasExample)
  /\ Goto("download")
  /\ UNCHANGED <<files, geoip, program>>

SkipDownload ==
  /\ pc = "download" /\ (~Downloads \/ Sized(Database))
  /\ Goto("finalize")
  /\ UNCHANGED <<files, geoip, program>>

\* (fault) a database is renewed at each start
DownloadAlways ==
  /\ pc = "download" /\ Downloads
  /\ Goto("move")
  /\ UNCHANGED <<files, geoip, program>>

\* wget and gzip, into a temporary file.
Download ==
  /\ pc = "download" /\ Downloads /\ ~Sized(Database)
  /\ Goto("move")
  /\ UNCHANGED <<files, geoip, program>>

DownloadFails ==
  /\ pc = "download" /\ Downloads /\ ~Sized(Database)
  /\ IF Requires THEN Exit("download failed")
     ELSE Goto("finalize") /\ UNCHANGED <<files, geoip, program>>

\* What mv has done of a file after one more step: to another file system it
\* copies, into a new file.  The temporary file is readable by root only.
Put(path, state) ==
  database' = [p \in DOMAIN database \cup {path} |->
                 IF p = path THEN state ELSE database[p]]

BeginMove ==
  /\ pc = "move" /\ Absolute(Database)[1] \in Volume
  /\ Put(Absolute(Database), "empty")
  /\ rootOnly' = rootOnly \cup {Absolute(Database)}
  /\ Goto("moving")
  /\ UNCHANGED <<config, geoip, program>>

Moving ==
  /\ pc = "moving" /\ State(Absolute(Database)) = "empty"
  /\ Put(Absolute(Database), "partial")
  /\ UNCHANGED <<env, config, rootOnly, pc, why, geoip, program, stops>>

EndMove ==
  /\ \/ pc = "moving" /\ State(Absolute(Database)) = "partial"
     \/ pc = "move" /\ Absolute(Database)[1] \notin Volume
  /\ Put(Absolute(Database), "whole")
  /\ rootOnly' = rootOnly \cup {Absolute(Database)}
  /\ Goto("finalize")
  /\ UNCHANGED <<config, geoip, program>>

Finalize ==
  /\ pc = "finalize"
  /\ IF Requires /\ ~Sized(Database) THEN Exit("database missing")
     ELSE /\ geoip' = IF Sized(Database) THEN Database ELSE Unset
          /\ Goto("own")
          /\ UNCHANGED <<files, program>>

\* chown -R: the program runs as another user, who owns the data directory.
Own ==
  /\ pc = "own"
  /\ rootOnly' = {path \in rootOnly : path[1] # Abs[DataDir]}
  /\ Goto("load")
  /\ UNCHANGED <<config, database, geoip, program>>

-----------------------------------------------------------------------------
\* main.
Environ == [env EXCEPT !.DataDir = DataDir, !.GeoIPDatabase = geoip]

Load ==
  /\ pc = "load"
  /\ IF LoadConfig(config, Environ) = NoConfig THEN Exit("failed to load config")
     ELSE /\ cfg' = LoadConfig(config, Environ)
          /\ Goto("open")
          /\ UNCHANGED <<files, geoip, opened>>

Matches(dir) == {path \in DOMAIN database \cap Dated : path[1] = dir}

\* The files OpenGeoIP takes the first of: the one that is set, or the dated
\* ones in the working directory, or else those in the data directory.
Candidates ==
  IF cfg.GeoIPDatabase # Unset THEN {cfg.GeoIPDatabase}
  ELSE IF Matches(Root) # {} THEN Matches(Root)
  ELSE Matches(cfg.DataDir)

Readable(path) == State(path) = "whole" /\ path \notin rootOnly

\* (fault) a database that does not open is done without
OpenLeniently ==
  /\ pc = "open"
  /\ \/ \E path \in Candidates : Readable(path) /\ opened' = path
     \/ (\A path \in Candidates : ~Readable(path)) /\ opened' = NoFile
  /\ Goto("list")
  /\ UNCHANGED <<files, geoip, cfg>>

OpenGeoIP ==
  /\ pc = "open"
  /\ \/ /\ Candidates = {} /\ opened' = NoFile
        /\ Goto("list") /\ UNCHANGED <<files, geoip, cfg>>
     \/ \E path \in Candidates :
          IF Readable(path)
          THEN opened' = path /\ Goto("list") /\ UNCHANGED <<files, geoip, cfg>>
          ELSE Exit("failed to open GeoIP database")

\* The list is loaded and saved (module ServerList), then the port is bound.
Serve ==
  /\ pc = "list"
  /\ Goto("serving")
  /\ UNCHANGED <<files, geoip, program>>

-----------------------------------------------------------------------------
Stop ==
  /\ pc # "down" /\ stops < MaxStops
  /\ stops' = stops + 1
  /\ pc' = "down" /\ why' = "stopped"
  /\ cfg' = NoConfig /\ opened' = NoFile /\ geoip' = Unset
  /\ UNCHANGED <<env, files>>

Script ==
  \/ Start \/ CreateConfig \/ CopyConfig \/ KeepConfig
  \/ SkipDownload \/ Download \/ DownloadFails
  \/ BeginMove \/ Moving \/ EndMove \/ Finalize \/ Own

Main == Load \/ OpenGeoIP \/ Serve

Next == Script \/ Main \/ Stop

Spec == Init /\ [][Next]_vars

\* A start goes on until it ends, ended starts are repeated, and a download
\* that is tried again and again succeeds in the end.
Fairness == WF_vars(Script \/ Main) /\ SF_vars(Download)

FairSpec == Spec /\ Fairness

-----------------------------------------------------------------------------
\* A server that must have GeoIP never serves without it, nor with another
\* database than the one its container was told to use, although the script
\* only tests the file's size and main only what the settings name in the end.
RequiredMeansOpen ==
  pc = "serving" /\ Requires => opened = Absolute(Database)

\* The program keeps its files where the script made room for them, whatever
\* the config file says: it may write there and a volume may be mounted there.
DataDirIsPrepared == pc \in {"open", "list", "serving"} => cfg.DataDir = Abs[DataDir]

\* A first start that is killed while it copies the config file leaves an
\* empty one, which no later start repairs; the settings are those of the
\* example nevertheless.
HalfCopiedConfigIsHarmless ==
  pc = "serving" /\ config = Empty => cfg = LoadConfig(Example, Environ)

\* No start, at whatever point it is killed, takes a whole database away.
WholeStaysWhole ==
  [][\A path \in DOMAIN database :
       database[path] = "whole" => State(path)' = "whole"]_vars

\* Whether what was found allows to start: the config file can be read and
\* names no database of its own, and the script's lies in the data directory
\* and can be had.
Startable ==
  /\ LoadConfig(config, Environ) # NoConfig
  /\ config = Unset \/ config.GeoIPDatabase = Unset
  /\ Absolute(Database)[1] = Abs[DataDir]
  /\ Downloads \/ ~Requires

\* However often and wherever the container is stopped, it comes up in the end
\* and stays up, unless a copy of the database was cut off half way.
ComesUp ==
  Startable /\ [](pc = "down" => State(Absolute(Database)) # "partial") =>
    <>[](pc = "serving")

-----------------------------------------------------------------------------
\* "fail startup if GeoIP download fails. Defaults to `false`" (README.md on
\* SERVERLIST_REQUIRE_GEOIP): without it the database is no reason not to start.
OnlyRequiredIsFatal == why = "failed to open GeoIP database" => Requires
=============================================================================
