CONSTANTS
    Width = 6
    Numbers <- MCNumbers
    WordSize = 4
    KeySize = 3
    AddressSize = 2
    Heads = {0, 127, 128}
    Sizes = {0, 1, 2, 23, 24, 25, 43, 44, 45, 46, 54, 55, 56, 57, 255, 256, 300}
    Characters = {46, 47, 48, 49, 53, 54, 65, 96, 97, 122, 123}
    Digits = {0, 1, 15, 16}
SPECIFICATION Spec
INVARIANTS NodeReadsTheFields NumbersAreKept NamesReadBack StringsReadBack KeysImportAsExported LeavesHaveTheirKeys SignaturesAreCanonical
