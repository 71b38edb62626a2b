SPECIFICATION Spec
CONSTANTS
  Scripts <- PairScripts
  Ran <- HaveRunBefore
  Default = "dlt"
  MaxEdits = 0
  None = None
  Root = ""
  Dirs = {"lib", "lib/sub", "link", "venv"}
  Parent <- MCParent
  Ignored = {"venv"}
  Skipped = {"link"}
  Names = {"pipeline.py", "requirements.txt", "secrets.toml"}
  Excluded = {"secrets.toml"}
  Specs = {"requirements.txt"}
  Requirements = "requirements.txt"
  Contents <- MCContents
  Frozen <- MCFrozen
  Trees <- MCTrees
  NoFile = NoFile
  PathLess <- MCPathLess
  MaxChanges = 1
INVARIANT SecretsOfDeployed
CHECK_DEADLOCK FALSE
