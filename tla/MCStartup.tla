----------------------------- MODULE MCStartup ------------------------------
(***************************************************************************)
(* Containers with the variables of the Dockerfile, some of them set to    *)
(* something else, an image without an example, and config files by hand.  *)
(***************************************************************************)
EXTENDS Startup

MCLower == [t \in {"true", "false", "Yes", "no idea", "Ban.Org", "ban.org"} |->
              IF t = "Yes" THEN "yes" ELSE IF t = "Ban.Org" THEN "ban.org" ELSE t]

MCParseDuration == [t \in {"3h", "45m", "soon"} |->
  IF t = "3h" THEN 3 * 3600 ELSE IF t = "45m" THEN 45 * 60 ELSE NoConfig]

MCAbs == [d \in {"/data", "/app", "/app/data", "/geo", "data"} |->
            IF d = "data" THEN "/app/data" ELSE d]

Docker ==
  [Host |-> "0.0.0.0", Port |-> "5000", DataDir |-> "/data",
   GeoIPDatabase |-> <<"/data", "dbip-country-lite.mmdb">>,
   TrustProxyHeaders |-> "false", LogRawRequests |-> "false",
   RejectPrivateAddresses |-> Unset, Download |-> "true", Require |-> "false",
   HasExample |-> TRUE]

OnlyDocker == {Docker}

MCEnvironment ==
  {[Docker EXCEPT !.DataDir = dir, !.GeoIPDatabase = path, !.Require = require,
                  !.Download = download, !.RejectPrivateAddresses = reject] :
     dir \in {Unset, "/data", "data"},
     path \in {Unset, <<"/data", "dbip-country-lite.mmdb">>, <<"/geo", "c.mmdb">>},
     require \in {"false", "Yes"}, download \in {Unset, "false"},
     reject \in {Unset, "no idea"}}
    \cup {[Docker EXCEPT !.HasExample = FALSE]}

MCContents ==
  {Unset, Undecodable, Empty, [Empty EXCEPT !.PurgeTime = "soon"],
   [Empty EXCEPT !.DataDir = "/geo", !.GeoIPDatabase = <<"/geo", "own.mmdb">>,
                 !.RejectPrivateAddresses = FALSE, !.PurgeTime = "45m",
                 !.BannedServers = {"Ban.Org"}]}

OwnDatabase == <<"/geo", "own.mmdb">>
MCDated == {<<"/app", "dbip-country-lite-1.mmdb">>, <<"/data", "dbip-country-lite-2.mmdb">>}
MCDatabases == {{}, {OwnDatabase}, MCDated}
NoDatabase == {{}}
NoContents == {Unset}
=============================================================================
