--------------------------- MODULE MCPluginResolver ---------------------------
(***************************************************************************)
(* PluginResolver over a build tree and a launcher's directory: "bin" holds*)
(* symlinks, "debug" the executable, "deps" in it the test executables.    *)
(***************************************************************************)
EXTENDS PluginResolver, TLC

MCDirs == {"bin", "debug", "deps"}
MCParent == "deps" :> "debug"
MCDepsDirs == {"deps"}
=============================================================================
