\* Time helpers: time_add_usec and is_later on a clock where one second is
\* four units, the wait crosses a second boundary and steps vary.
CONSTANTS
    USecPerSec = 4
    MaxWait = 5
    MinResponse = 1
    MaxElapse = 3
    MaxSec = 4
SPECIFICATION CommonSpec
INVARIANT TypeOK
INVARIANT ExpireIsSendPlusWait
INVARIANT IsLaterIsTimeOrder
\* The address helpers, on the input each behaviour chooses.
INVARIANT OnesIsPopCount
INVARIANT SubnetShowsPrefix
INVARIANT MacHiLoRoundTrip
INVARIANT MacIsZeroIsNotValid
\* The formatted text and its buffers.
INVARIANT AddrStringsNotTruncated
INVARIANT MySnprintfReportsFit
INVARIANT ShowTextFitsDocumentedLength
\* The clock stops at MaxSec.
CHECK_DEADLOCK FALSE
