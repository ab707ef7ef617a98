SPECIFICATION FairSpec
CONSTANTS
  tool = tool
  lib = lib
  Pkgs = {tool, lib}
  Upstream = {lib}
  Recipes = {tool}
  Req <- MCReq
  MaxVersion = 2
  MaxIndex = 2
  MirrorFaults = {}
  Skews = {0}
  MaxReqs = 1
  MaxNow = 2
  MaxStops = 2
  Yums = {y1}
  MaxYums = 2
  MaxEvents = 3
  YumFaults = {"replay", "kill", "window", "full", "dead"}
INVARIANTS
  FilesTrue
PROPERTIES
  NeverBack
  RunsEnd
CHECK_DEADLOCK FALSE
