SPECIFICATION Spec
INVARIANTS TimesMeanTheNextMoment AccountsStayThemselves PermalinksKeepTheirMeaning TranscriptsReadBack NothingWaitsUnseen FormsMeanWhatTheyShow CommandsDoWhatIsAsked TheCacheServesItsReaders
CHECK_DEADLOCK FALSE
