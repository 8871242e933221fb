---------------------------- MODULE MCReaderConn ----------------------------
EXTENDS ReaderConn

MCFailing == {Leader, Backup}
=============================================================================
