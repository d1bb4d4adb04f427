-------------------------- MODULE MCPluginProcess ---------------------------
\* Instances of PluginProcess for TLC.
EXTENDS PluginProcessInv
=============================================================================
