------------------------------- MODULE Config -------------------------------
(***************************************************************************)
(* src/config.go: the settings, from the defaults, the scfg file and the   *)
(* environment.  A setting, a directive and a SERVERLIST_ variable have    *)
(* one name here.  A file of the file system is <<directory, name>>.       *)
(***************************************************************************)
EXTENDS Integers

CONSTANTS
  Unset,         \* a variable or directive that is missing or empty
  Undecodable,   \* a file that is no scfg or has a value of another type
  NoConfig,      \* LoadConfig's error
  ParseDuration, \* seconds; NoConfig if a text is no duration
  Lower,
  Abs            \* a directory as seen from the working directory

Flag == {"RejectPrivateAddresses", "AllowUpdateWithoutOld",
         "TrustProxyHeaders", "LogRawRequests", "Debug"}

\* What the environment can override.
Variable == {"Host", "Port", "DataDir", "GeoIPDatabase",
             "RejectPrivateAddresses", "TrustProxyHeaders", "LogRawRequests"}

\* (fault) the default is the stricter one
StrictDefaults ==
  [Host |-> "127.0.0.1", Port |-> "5000", DataDir |-> "/data",
   GeoIPDatabase |-> Unset, RejectPrivateAddresses |-> TRUE,
   AllowUpdateWithoutOld |-> FALSE, TrustProxyHeaders |-> FALSE,
   LogRawRequests |-> FALSE, BannedIPs |-> {}, BannedServers |-> {},
   PurgeTime |-> 3 * 3600, Debug |-> FALSE]

DefaultConfig ==
  [Host |-> "127.0.0.1", Port |-> "5000", DataDir |-> "/data",
   GeoIPDatabase |-> Unset, RejectPrivateAddresses |-> TRUE,
   AllowUpdateWithoutOld |-> TRUE, TrustProxyHeaders |-> FALSE,
   LogRawRequests |-> FALSE, BannedIPs |-> {}, BannedServers |-> {},
   PurgeTime |-> 3 * 3600, Debug |-> FALSE]

\* A file without directives; only the bans repeat.
Empty == [s \in DOMAIN DefaultConfig |->
            IF s \in {"BannedIPs", "BannedServers"} THEN {} ELSE Unset]

\* How boolFromEnv and the container's script take a variable: whatever they
\* do not know is false.
Truthy(text) == Lower[text] \in {"1", "true", "yes", "on"}

FromFile(file) ==
  [s \in DOMAIN DefaultConfig |->
     IF s = "BannedIPs" THEN file[s]
     ELSE IF s = "BannedServers" THEN {Lower[server] : server \in file[s]}
     ELSE IF file[s] = Unset THEN DefaultConfig[s]
     ELSE IF s = "PurgeTime" THEN ParseDuration[file[s]]
     ELSE file[s]]

ApplyEnvOverrides(cfg, environ) ==
  [s \in DOMAIN cfg |->
     IF s \notin Variable \/ environ[s] = Unset THEN cfg[s]
     ELSE IF s \in Flag THEN Truthy(environ[s])
     ELSE environ[s]]

Absolute(path) == <<Abs[path[1]], path[2]>>

NormalizeConfigPaths(cfg) ==
  [cfg EXCEPT !.DataDir = Abs[@],
              !.GeoIPDatabase = IF @ = Unset THEN @ ELSE Absolute(@)]

\* (fault) the file has the last word
LoadConfigFileLast(file, environ) ==
  IF file \in {Unset, Undecodable} THEN NoConfig
  ELSE NormalizeConfigPaths(
         [s \in DOMAIN DefaultConfig |->
            IF file[s] = Empty[s] THEN ApplyEnvOverrides(DefaultConfig, environ)[s]
            ELSE FromFile(file)[s]])

\* file is Unset if there is none.
LoadConfig(file, environ) ==
  IF file = Unset
  THEN NormalizeConfigPaths(ApplyEnvOverrides(DefaultConfig, environ))
  ELSE IF file = Undecodable \/ FromFile(file).PurgeTime = NoConfig THEN NoConfig
  ELSE NormalizeConfigPaths(ApplyEnvOverrides(FromFile(file), environ))
=============================================================================
