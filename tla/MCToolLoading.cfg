SPECIFICATION StartupSpec
CONSTANTS
  Names = {"n1", "n2"}
  Manifests <- MCManifests
  ScriptFiles <- MCScriptFiles
  ManifestCount = 2
  ScriptCount = 2
  Worlds <- MCWorlds
INVARIANTS
  StartupTypeOK
  RegistryExact
  
PROPERTY StartupEnds
