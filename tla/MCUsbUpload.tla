---------------------------- MODULE MCUsbUpload ----------------------------
EXTENDS UsbUpload

Producer(key, password, interval) ==
    [public_key |-> key, name |-> None, kind |-> IF password = None THEN None ELSE "repeater",
     password |-> password, enabled |-> None, polling_interval_secs |-> interval,
     route |-> "flood"]

Wire(port, radio, producers) ==
    [name |-> "gate", public_key |-> "key", private_key |-> None,
     interval |-> None, jitter |-> None,
     radio |-> radio, path_mode |-> None, display |-> None,
     http |-> [port |-> port, wifi_ssid |-> "ssid", wifi_password |-> "", tokens |-> <<>>],
     producers |-> producers]

\* Unusual settings that are supported, and one that is not.
Quiet == [tx_power_level |-> -9, bandwidth_hz |-> 7810, tx_ramp_time_us |-> 3400]
Broad == [bandwidth_hz |-> 200000]

MCContent ==
    [good |-> [type |-> "config",
               config |-> Wire(80, Quiet, <<Producer("a", "pw", None), Producer("b", None, 2)>>)],
     fast |-> [type |-> "config", config |-> Wire(80, None, <<Producer("a", None, 0)>>)],
     vast |-> [type |-> "set_config",
               config |-> [Wire(80, None, <<>>) EXCEPT !.private_key = Long]],
     broad |-> [type |-> "set_config", config |-> Wire(80, Broad, <<>>)],
     twins |-> [type |-> "set_config",
                config |-> Wire(80, None, <<Producer("a", None, None), Producer("a", None, 3)>>)],
     empty |-> [type |-> "set_config", config |-> None],
     reset |-> [type |-> "reboot", config |-> None],
     other |-> [type |-> "other", config |-> None]]

MCDocuments == DOMAIN MCContent

\* Whole documents, with a comment, with strings, nested, too long, cut short,
\* not UTF-8, and no document at all.
MCTexts == {
    <<"good", "close", "newline">>,
    <<"fast", "close">>,
    <<"broad", "close">>,
    <<"twins", "good", "close", "close">>,
    <<"empty", "close">>,
    <<"vast", "close">>,
    <<"slash", "slash", "close", "newline", "reset", "close">>,
    <<"good", "quote", "slash", "escape", "quote", "close", "slash", "quote", "close">>,
    <<"slash", "text", "slash", "slash", "newline", "text", "text", "newline", "newline", "good", "close">>,
    <<"other", "slash", "good", "close">>,
    <<"good", "quote", "slash">>,
    <<"good", "bad">>,
    <<"text", "bad", "slash">>,
    <<"close", "newline">> }
=============================================================================
