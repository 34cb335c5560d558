--------------------------- MODULE MCBrowserWorker ---------------------------
\* Small instances of the task coordinator and its workers for TLC.
EXTENDS BrowserWorker, TLC
=============================================================================
