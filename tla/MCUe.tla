--------------------------------- MODULE MCUe ---------------------------------
\* Small instances of TesterUe.
EXTENDS TesterUe
===============================================================================
