\* Every table of four processes of two users below init standing still, and three
\* changes of the host anywhere in a walk through one chain.
CONSTANTS
  Pid = {1, 2, 3, 4, 5}
  Uid = {1000, 1001}
  Image = {"gk1", "gk2", "runtime", "sh_c", "sh_script"}
  ShellNamed = {"sh_c", "sh_script"} 
  CFlagged = {"sh_c", "python_c"}
  FileOf <- MCFileOf
  ClientImages = {"gk1", "gk2"}
  Subreaper = {2}
  MaxHops = 1
  MaxEvents = 3
SPECIFICATION MCSpec
CHECK_DEADLOCK FALSE
INVARIANTS QuietExact 
