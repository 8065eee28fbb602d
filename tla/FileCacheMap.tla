---------------------------- MODULE FileCacheMap ----------------------------
(* FileCache implements DurableMap. *)
EXTENDS FileCache

DM == INSTANCE DurableMap WITH mem <- data, file <- disk, unsaved <- dirty, time <- now

\* Whatever debounce tasks, writes, flushes, failures and crashes do, the file
\* becomes the current map as a whole, and only a saved map is called clean.
RefinesDurableMap == DM!Spec
=============================================================================
