------------------------- MODULE MCReaderWriterQueue -------------------------
EXTENDS ReaderWriterQueueProps
=============================================================================
